---- MODULE Spec2Model ----
(***************************************************************************)
(* PayLoad: delivery-work tracking.  A model of the storage service        *)
(* (src/services/storage.ts, hosted row store; the local key-value         *)
(* variant kept in src/types.ts), the pay calculator and the views of      *)
(* src/App.tsx that call them.                                             *)
(*                                                                         *)
(* Money is counted in pence: 1.00 is 100, 0.80 is 80, 180.00 is 18000.    *)
(* Calendar days are the integer YYYYMMDD of the ISO string YYYY-MM-DD,    *)
(* which orders exactly as the strings do.                                 *)
(***************************************************************************)
EXTENDS Integers, Sequences, FiniteSets, TLC

VARIABLES
    calcIn,     \* pay calculator: the call being evaluated
    calcOut,    \* pay calculator: its result, Null before the call returns
    storeUp,    \* store: TRUE while the store answers requests without error
    users,      \* store: rows of table users, in insertion order
    seqImpl,    \* sequential driver: which storage implementation is called
    seqPrev,    \* sequential driver: the call before the last one
    seqLast,    \* sequential driver: the last call, its outcome and pre-state
    localStore, \* the local key-value store and the outcome of the last call on it
    initPc,     \* per session and caller: where its initializeStorage call stands
    appLoading, \* per session: App's loading flag (the start-up screen is shown)
    currentUser,\* per session: App's currentUser, Null when logged out
    login,      \* per session: LoginView's submit in progress and its error text
    records,    \* store: rows of table work_records, in insertion order
    created,    \* store: how many work_records rows were ever inserted (ids given)
    route,      \* the driver's session: the route shown (HashRouter path)
    form,       \* CalculatorView: the entry form's state
    creates,    \* createRecord calls in flight
    save,       \* CalculatorView.handleSave: loading flag, what it awaits, last alert
    hist,       \* HistoryView: records shown, deleteRecord and refresh calls in flight
    admin       \* AdminView: the drivers listed and the driver selected

vars == <<calcIn, calcOut, storeUp, users, seqImpl, seqPrev, seqLast, localStore,
          initPc, appLoading, currentUser, login,
          records, created, route, form, creates, save, hist, admin>>

\* an absent value (null, undefined) is the empty sequence, a present one <<x>>
Null == <<>>
Some(x) == <<x>>
Val(o) == o[1]

calcVars == <<calcIn, calcOut>>
seqVars == <<seqImpl, seqPrev, seqLast, localStore>>
sessionVars == <<initPc, appLoading, currentUser, login>>
recVars == <<records, created, route, form, creates, save, hist, admin>>

\* browser sessions (one page load each) and, per page load, the two places
\* that call initializeStorage: index.tsx and App's mount effect
Sessions == {"tabA", "tabB"}
InitCallers == {"index", "app"}

LoginIdle(error) == [pc |-> "idle", name |-> "", username |-> "", password |-> "", error |-> error]

NoCall == [op |-> "none", username |-> "", out |-> "", ret |-> Null, before |-> <<>>]

\* the parts of the state a specification does not exercise, at rest
CalcUnused == calcIn = [fn |-> "none"] /\ calcOut = Null
\* localStorage with neither key set, no call made
LocalEmpty == [users |-> <<>>, records |-> <<>>, created |-> 0, out |-> "", ret |-> Null]

SeqUnused ==
    seqImpl = "hosted" /\ seqPrev = NoCall /\ seqLast = NoCall /\ localStore = LocalEmpty
SessionsUnused ==
    /\ initPc = [s \in Sessions |-> [k \in InitCallers |-> "done"]]
    /\ appLoading = [s \in Sessions |-> FALSE]
    /\ currentUser = [s \in Sessions |-> Null]
    /\ login = [s \in Sessions |-> LoginIdle("")]
\* AdminView as it mounts; of handleGlobalExport: the driver whose
\* records are read next, allRecords, the file downloaded and the alert shown
AdminIdle ==
    [loading |-> TRUE, drivers |-> <<>>, selectedDriver |-> Null,
     exportLoading |-> FALSE, exportNext |-> 0,
     allRecords |-> <<>>, file |-> Null, alert |-> ""]

RecUnused ==
    /\ admin = AdminIdle
    /\ records = <<>>
    /\ created = 0
    /\ route = "/"
    /\ form = <<>>
    /\ creates = <<>>
    /\ save = [loading |-> FALSE, issued |-> <<>>, left |-> 0, failed |-> FALSE, alert |-> ""]
    /\ hist = [records |-> <<>>, deletes |-> <<>>, refreshes |-> <<>>]

\* what a step of the pay calculator leaves alone
CalcFrame == UNCHANGED <<calcIn, seqVars, sessionVars, recVars>>

(***************************************************************************)
(* Pay calculator                                                          *)
(***************************************************************************)
ParcelRate == 100
CollectionRate == 80
DailyOneID == 18000
DailyTwoLow == 26000
DailyTwoMid == 30000
DailyTwoHigh == 36000
TierLow == 150
TierHigh == 250

\* bounds of the calculator inputs that are enumerated
MinQty == 3          \* quantities range over -MinQty .. MaxQty
MaxQty == 253
MaxCount == 12       \* parcels and collections range over 0 .. MaxCount

\* plausible slip: the collection rate applied to parcels as well
calculateIndividualSwapped(parcels, collections) ==
    LET parcelValue == parcels * CollectionRate
        collectionValue == collections * CollectionRate
    IN  [parcelValue |-> parcelValue,
         collectionValue |-> collectionValue,
         total |-> parcelValue + collectionValue]

calculateIndividual(parcels, collections) ==
    LET parcelValue == parcels * ParcelRate
        collectionValue == collections * CollectionRate
    IN  [parcelValue |-> parcelValue,
         collectionValue |-> collectionValue,
         total |-> parcelValue + collectionValue]

\* plausible slip: the lower tier boundary taken exclusive of 150
calculateDailyOffByOne(isTwoIDs, quantity) ==
    IF ~isTwoIDs THEN DailyOneID
    ELSE IF quantity <= TierLow THEN DailyTwoLow
    ELSE IF quantity <= TierHigh THEN DailyTwoMid
    ELSE DailyTwoHigh

calculateDaily(isTwoIDs, quantity) ==
    IF ~isTwoIDs THEN DailyOneID
    ELSE IF quantity < TierLow THEN DailyTwoLow
    ELSE IF quantity <= TierHigh THEN DailyTwoMid
    ELSE DailyTwoHigh

(***************************************************************************)
(* Users: the hosted store (src/services/storage.ts)                       *)
(***************************************************************************)
MaxUsers == 3        \* rows the users table may hold

Names == {"", "Bob"}
Usernames == {"", "admin", "bob"}
Passwords == {"", "EVRI01", "pw"}
RegPasswords == {"", "pw"}     \* passwords typed when registering
Roles == {"ADMIN", "DRIVER"}

\* a row of table users (snake_case columns); created_at, a clock reading that
\* nothing reads back, is left out
UserRow(id, name, username, password, role) ==
    [id |-> id, name |-> name, username |-> username,
     password_hash |-> password, role |-> role]

\* the User object the service hands to the views (camelCase fields)
toUser(d) ==
    [id |-> d.id, name |-> d.name, username |-> d.username,
     passwordHash |-> d.password_hash, role |-> d.role]

NoRows == "PGRST116"      \* .single(): the result is not exactly one row
StoreError == "42P01"     \* any other error of the store (table missing, ...)

\* supabase .select().eq(...).single() over the rows that match
single(rows) ==
    IF ~storeUp THEN [data |-> Null, error |-> Some(StoreError)]
    ELSE IF Len(rows) = 1 THEN [data |-> Some(rows[1]), error |-> Null]
    ELSE [data |-> Null, error |-> Some(NoRows)]

\* supabase .select().eq(...) without .single()
selectAll(rows) ==
    IF ~storeUp THEN [data |-> Null, error |-> Some(StoreError)]
    ELSE [data |-> Some(rows), error |-> Null]

whereUsername(us, username) == SelectSeq(us, LAMBDA u : u.username = username)

whereCredentials(us, username, password, role) ==
    SelectSeq(us, LAMBDA u : /\ u.username = username
                              /\ u.password_hash = password
                              /\ u.role = role)

\* supabase .insert([row]): the store assigns the id
insertUser(us, name, username, password, role) ==
    IF storeUp THEN Append(us, UserRow(Len(us) + 1, name, username, password, role))
    ELSE us

\* initializeStorage, the lookup: the answer to the admin query
initLookup(us) == single(whereUsername(us, "admin"))

\* initializeStorage, after the lookup: TRUE when the admin row is inserted
initSeeds(res) ==
    IF res.error # Null /\ Val(res.error) # NoRows THEN FALSE
    ELSE res.data = Null

initInsert(us) == insertUser(us, "System Admin", "admin", "EVRI01", "ADMIN")

\* plausible slip: the seed is inserted without looking at the lookup's answer
initializeStorageAlways(us) == initInsert(us)

\* initializeStorage run to completion with no other request in between
initializeStorage(us) ==
    IF initSeeds(initLookup(us)) THEN initInsert(us) ELSE us

\* registerUser, the lookup: TRUE when the username is reported taken
registerExists(us, username) == single(whereUsername(us, username)).data # Null

\* plausible slip: a row named admin registered with the admin's role
registerInsertRoleByName(us, name, username, password) ==
    insertUser(us, name, username, password,
               IF username = "admin" THEN "ADMIN" ELSE "DRIVER")

registerInsert(us, name, username, password) ==
    insertUser(us, name, username, password, "DRIVER")

\* plausible slip: the duplicate check dropped
registerUserNoCheck(us, name, username, password) ==
    IF storeUp
    THEN [out |-> "ok", users |-> registerInsert(us, name, username, password),
          ret |-> Some(toUser(UserRow(Len(us) + 1, name, username, password, "DRIVER")))]
    ELSE [out |-> "error", users |-> us, ret |-> Null]

\* registerUser run to completion with no other request in between:
\* the outcome, the table afterwards and the user returned
registerUser(us, name, username, password) ==
    IF registerExists(us, username)
    THEN [out |-> "duplicate", users |-> us, ret |-> Null]
    ELSE IF storeUp
    THEN [out |-> "ok", users |-> registerInsert(us, name, username, password),
          ret |-> Some(toUser(UserRow(Len(us) + 1, name, username, password, "DRIVER")))]
    ELSE [out |-> "error", users |-> us, ret |-> Null]

\* authenticate: the user returned, or Null
authenticate(us, username, password, role) ==
    LET res == single(whereCredentials(us, username, password, role))
    IN  IF res.error # Null \/ res.data = Null THEN Null
        ELSE Some(toUser(Val(res.data)))

(***************************************************************************)
(* Users: the local key-value variant (src/types.ts)                       *)
(***************************************************************************)
LocalUser(id, name, username, password, role) ==
    [id |-> id, name |-> name, username |-> username,
     passwordHash |-> password, role |-> role]

localSome(us, username) == \E i \in 1..Len(us) : us[i].username = username

localInitializeStorage(us) ==
    IF ~localSome(us, "admin")
    THEN Append(us, LocalUser(Len(us) + 1, "System Admin", "admin", "EVRI01", "ADMIN"))
    ELSE us

\* plausible slip: the check for a stored user of the name left out
localRegisterUserNoCheck(us, name, username, password) ==
    LET newUser == LocalUser(Len(us) + 1, name, username, password, "DRIVER")
    IN  [out |-> "ok", users |-> Append(us, newUser), ret |-> Some(newUser)]

localRegisterUser(us, name, username, password) ==
    IF localSome(us, username)
    THEN [out |-> "duplicate", users |-> us, ret |-> Null]
    ELSE LET newUser == LocalUser(Len(us) + 1, name, username, password, "DRIVER")
         IN  [out |-> "ok", users |-> Append(us, newUser), ret |-> Some(newUser)]

localAuthenticate(us, username, password, role) ==
    LET hits == SelectSeq(us, LAMBDA u : /\ u.username = username
                                         /\ u.passwordHash = password
                                         /\ u.role = role)
    IN  IF Len(hits) = 0 THEN Null ELSE Some(hits[1])

(***************************************************************************)
(* The service called one call after another                               *)
(***************************************************************************)
Call(op, username, out, ret) ==
    [op |-> op, username |-> username, out |-> out, ret |-> ret, before |-> users]

SeqUnchanged ==
    UNCHANGED <<calcIn, calcOut, storeUp, seqImpl, localStore, sessionVars, recVars>>

SeqInitializeStorage ==
    LET after == IF seqImpl = "hosted" THEN initializeStorage(users)
                 ELSE localInitializeStorage(users)
    IN  /\ Len(after) <= MaxUsers
        /\ users' = after
        /\ seqPrev' = seqLast
        /\ seqLast' = Call("initializeStorage", "admin", "ok", Null)
        /\ SeqUnchanged

SeqRegisterUser(name, username, password) ==
    LET r == IF seqImpl = "hosted" THEN registerUser(users, name, username, password)
             ELSE localRegisterUser(users, name, username, password)
    IN  /\ Len(r.users) <= MaxUsers
        /\ users' = r.users
        /\ seqPrev' = seqLast
        /\ seqLast' = Call("registerUser", username, r.out, r.ret)
        /\ SeqUnchanged

SeqAuthenticate(username, password, role) ==
    LET r == IF seqImpl = "hosted" THEN authenticate(users, username, password, role)
             ELSE localAuthenticate(users, username, password, role)
    IN  /\ users' = users
        /\ seqPrev' = seqLast
        /\ seqLast' = Call("authenticate", username, IF r = Null THEN "null" ELSE "user", r)
        /\ SeqUnchanged

SeqInit ==
    /\ CalcUnused
    /\ storeUp = TRUE
    /\ users = <<>>
    /\ seqImpl \in {"hosted", "local"}
    /\ seqPrev = NoCall
    /\ localStore = LocalEmpty
    /\ seqLast = NoCall
    /\ SessionsUnused
    /\ RecUnused

SeqNext ==
    \/ SeqInitializeStorage
    \/ \E name \in Names \ {""}, username \in Usernames \ {""}, password \in Passwords \ {""} :
           SeqRegisterUser(name, username, password)
    \/ \E username \in Usernames, password \in Passwords, role \in Roles :
           SeqAuthenticate(username, password, role)

SpecSeq == SeqInit /\ [][SeqNext]_vars

AdminCount(us) == Cardinality({i \in 1..Len(us) : us[i].username = "admin"})

\* C4: initializeStorage called twice in sequence on a store with no user
\* named admin leaves exactly one user named admin.
C4_TwiceOneAdmin ==
    ( /\ seqPrev.op = "initializeStorage"
      /\ seqLast.op = "initializeStorage"
      /\ AdminCount(seqPrev.before) = 0 ) => AdminCount(users) = 1

\* two calls in a row have run on a store that held a driver and no admin
C4_Witness ==
    /\ seqPrev.op = "initializeStorage"
    /\ seqLast.op = "initializeStorage"
    /\ AdminCount(seqPrev.before) = 0
    /\ Len(seqPrev.before) = 1
    /\ Len(users) = 2

\* C6: registerUser called twice in sequence with one username: the second
\* call fails as a duplicate, creates no user and leaves the first call's
\* user as it was.
C6_SecondRegisterFails ==
    ( /\ seqPrev.op = "registerUser"
      /\ seqLast.op = "registerUser"
      /\ seqPrev.username = seqLast.username ) =>
        /\ seqLast.out = "duplicate"
        /\ seqLast.ret = Null
        /\ users = seqLast.before
        /\ seqPrev.out = "ok" =>
              \E i \in 1..Len(users) :
                  /\ users[i].id = Val(seqPrev.ret).id
                  /\ users[i].username = Val(seqPrev.ret).username
                  /\ users[i].name = Val(seqPrev.ret).name
                  /\ users[i].role = "DRIVER"

\* the first call created the user and the second was refused
C6_Witness ==
    /\ seqPrev.op = "registerUser"
    /\ seqPrev.out = "ok"
    /\ seqLast.op = "registerUser"
    /\ seqLast.username = seqPrev.username
    /\ seqLast.out = "duplicate"

CalcInputs ==
    [fn : {"calculateDaily"}, isTwoIDs : BOOLEAN, quantity : (0 - MinQty)..MaxQty]
    \cup
    [fn : {"calculateIndividual"}, parcels : 0..MaxCount, collections : 0..MaxCount]

CallDaily ==
    /\ calcOut = Null
    /\ calcIn.fn = "calculateDaily"
    /\ calcOut' = Some(calculateDaily(calcIn.isTwoIDs, calcIn.quantity))
    /\ UNCHANGED <<storeUp, users>> /\ CalcFrame

CallIndividual ==
    /\ calcOut = Null
    /\ calcIn.fn = "calculateIndividual"
    /\ calcOut' = Some(calculateIndividual(calcIn.parcels, calcIn.collections))
    /\ UNCHANGED <<storeUp, users>> /\ CalcFrame

CalcInit ==
    /\ calcIn \in CalcInputs
    /\ calcOut = Null
    /\ storeUp = TRUE
    /\ users = <<>>
    /\ SeqUnused
    /\ SessionsUnused
    /\ RecUnused

CalcNext == CallDaily \/ CallIndividual

SpecCalc == CalcInit /\ [][CalcNext]_vars

\* C1: calculateDaily(false, q) is 180.00 for every q; calculateDaily(true, q)
\* is 260.00 for q < 150, 300.00 for 150 <= q <= 250 and 360.00 for q > 250.
C1_DailyTiers ==
    (calcIn.fn = "calculateDaily" /\ calcOut # Null) =>
        LET q == calcIn.quantity
            v == Val(calcOut)
        IN  /\ ~calcIn.isTwoIDs => v = 18000
            /\ (calcIn.isTwoIDs /\ q < 150) => v = 26000
            /\ (calcIn.isTwoIDs /\ q >= 150 /\ q <= 250) => v = 30000
            /\ (calcIn.isTwoIDs /\ q > 250) => v = 36000

\* the boundary 150 of the middle tier has been evaluated with two IDs
C1_Witness ==
    /\ calcIn.fn = "calculateDaily"
    /\ calcIn.isTwoIDs
    /\ calcIn.quantity = 150
    /\ calcOut # Null
    /\ Val(calcOut) = 30000

\* C2: calculateIndividual(p, c) returns parcelValue = 100p pence,
\* collectionValue = 80c pence and total = their sum, for p, c >= 0.
C2_IndividualTotal ==
    (calcIn.fn = "calculateIndividual" /\ calcOut # Null) =>
        /\ Val(calcOut).parcelValue = 100 * calcIn.parcels
        /\ Val(calcOut).collectionValue = 80 * calcIn.collections
        /\ Val(calcOut).total = 100 * calcIn.parcels + 80 * calcIn.collections

\* a call with both counts positive has returned
C2_Witness ==
    /\ calcIn.fn = "calculateIndividual"
    /\ calcIn.parcels = 3
    /\ calcIn.collections = 2
    /\ calcOut # Null
    /\ Val(calcOut).total = 460

(***************************************************************************)
(* Start-up and LoginView of concurrent sessions against the hosted store  *)
(***************************************************************************)
SessionFrame == UNCHANGED <<calcVars, seqVars, storeUp, recVars>>

\* the store answers the admin lookup of one initializeStorage call
InitLookup(s, k) ==
    /\ initPc[s][k] = "lookup"
    /\ initPc' = [initPc EXCEPT ![s][k] =
                     IF initSeeds(initLookup(users)) THEN "insert" ELSE "done"]
    /\ UNCHANGED <<users, appLoading, currentUser, login>>
    /\ SessionFrame

\* the store performs the admin insert of one initializeStorage call
InitInsert(s, k) ==
    /\ initPc[s][k] = "insert"
    /\ Len(users) < MaxUsers
    /\ users' = initInsert(users)
    /\ initPc' = [initPc EXCEPT ![s][k] = "done"]
    /\ UNCHANGED <<appLoading, currentUser, login>>
    /\ SessionFrame

\* App.init: the race is won by dbInit
InitSettled(s) ==
    /\ appLoading[s]
    /\ initPc[s]["app"] = "done"
    /\ appLoading' = [appLoading EXCEPT ![s] = FALSE]
    /\ UNCHANGED <<users, initPc, currentUser, login>>
    /\ SessionFrame

\* plausible slip: the timer awaited together with dbInit, not raced against it
InitTimeoutWaits(s) ==
    /\ appLoading[s]
    /\ initPc[s]["app"] = "done"
    /\ appLoading' = [appLoading EXCEPT ![s] = FALSE]
    /\ UNCHANGED <<users, initPc, currentUser, login>>
    /\ SessionFrame

\* App.init: the race is won by the 5 s timer
InitTimeout(s) ==
    /\ appLoading[s]
    /\ appLoading' = [appLoading EXCEPT ![s] = FALSE]
    /\ UNCHANGED <<users, initPc, currentUser, login>>
    /\ SessionFrame

LoginShown(s) == ~appLoading[s] /\ currentUser[s] = Null /\ login[s].pc = "idle"

\* LoginView.handleSubmit, registering: validation and the username lookup
SubmitRegister(s, name, username, password) ==
    /\ LoginShown(s)
    /\ login' = [login EXCEPT ![s] =
          IF name = "" \/ username = "" \/ password = ""
          THEN LoginIdle("Preencha todos os campos")
          ELSE IF registerExists(users, username)
          THEN LoginIdle("Usuario ja existe.")
          ELSE [pc |-> "insert", name |-> name, username |-> username,
                password |-> password, error |-> ""]]
    /\ UNCHANGED <<users, initPc, appLoading, currentUser>>
    /\ SessionFrame

\* LoginView.handleSubmit, registering: the insert and onLogin(newUser)
RegisterInsert(s) ==
    /\ login[s].pc = "insert"
    /\ Len(users) < MaxUsers
    /\ users' = registerInsert(users, login[s].name, login[s].username, login[s].password)
    /\ IF storeUp
       THEN /\ currentUser' = [currentUser EXCEPT ![s] = Some(toUser(users'[Len(users')]))]
            /\ login' = [login EXCEPT ![s] = LoginIdle("")]
       ELSE /\ currentUser' = currentUser
            /\ login' = [login EXCEPT ![s] = LoginIdle(StoreError)]
    /\ UNCHANGED <<initPc, appLoading>>
    /\ SessionFrame

TabRole(tab) == IF tab = "DRIVER" THEN "DRIVER" ELSE "ADMIN"

\* LoginView.handleSubmit, logging in: authenticate and onLogin(user)
SubmitLogin(s, tab, username, password) ==
    LET user == authenticate(users, username, password, TabRole(tab))
    IN  /\ LoginShown(s)
        /\ IF user # Null
           THEN /\ currentUser' = [currentUser EXCEPT ![s] = user]
                /\ login' = [login EXCEPT ![s] = LoginIdle("")]
           ELSE /\ currentUser' = currentUser
                /\ login' = [login EXCEPT ![s] = LoginIdle("Credenciais invalidas.")]
        /\ UNCHANGED <<users, initPc, appLoading>>
        /\ SessionFrame

\* App.handleLogout
handleLogout(s) ==
    /\ currentUser[s] # Null
    /\ currentUser' = [currentUser EXCEPT ![s] = Null]
    /\ UNCHANGED <<users, initPc, appLoading, login>>
    /\ SessionFrame

Init ==
    /\ CalcUnused
    /\ storeUp = TRUE
    /\ users = <<>>
    /\ SeqUnused
    /\ RecUnused
    /\ initPc = [s \in Sessions |-> [k \in InitCallers |-> "lookup"]]
    /\ appLoading = [s \in Sessions |-> TRUE]
    /\ currentUser = [s \in Sessions |-> Null]
    /\ login = [s \in Sessions |-> LoginIdle("")]

Next ==
    \/ \E s \in Sessions, k \in InitCallers : InitLookup(s, k)
    \/ \E s \in Sessions, k \in InitCallers : InitInsert(s, k)
    \/ \E s \in Sessions : InitSettled(s)
    \/ \E s \in Sessions : InitTimeout(s)
    \/ \E s \in Sessions, name \in Names, username \in Usernames, password \in RegPasswords :
           SubmitRegister(s, name, username, password)
    \/ \E s \in Sessions : RegisterInsert(s)
    \/ \E s \in Sessions, tab \in Roles, username \in Usernames, password \in Passwords :
           SubmitLogin(s, tab, username, password)
    \/ \E s \in Sessions : handleLogout(s)

Spec == Init /\ [][Next]_vars

AllInitSettled == \A s \in Sessions, k \in InitCallers : initPc[s][k] = "done"

\* C5: once every start-up call of initializeStorage has settled, the store
\* holds exactly one user named admin, and that user has role ADMIN.
C5_OneAdminAfterStartup ==
    AllInitSettled =>
        /\ AdminCount(users) = 1
        /\ \A i \in 1..Len(users) : users[i].username = "admin" => users[i].role = "ADMIN"

\* C7: under any interleaving of registerUser calls no two users share a
\* username; stated for the rows registerUser inserts (role DRIVER), so that
\* a violation is the doing of registerUser alone.
C7_UniqueUsernames ==
    \A i, j \in 1..Len(users) :
        (i # j /\ users[i].role = "DRIVER" /\ users[j].role = "DRIVER")
            => users[i].username # users[j].username

Matching(username, password, role) ==
    {i \in 1..Len(users) : /\ users[i].username = username
                           /\ users[i].password_hash = password
                           /\ users[i].role = role}

\* C8: authenticate(username, password, role) returns a user exactly when the
\* store holds a user with that username, password field and role, and the
\* user returned is that user; otherwise it returns null.
C8_AuthenticateExact ==
    [][\A s \in Sessions, tab \in Roles, username \in Usernames, password \in Passwords :
          SubmitLogin(s, tab, username, password) =>
              LET hits == Matching(username, password, TabRole(tab))
              IN  /\ currentUser'[s] # Null <=> hits # {}
                  /\ currentUser'[s] # Null =>
                        \E i \in hits : Val(currentUser'[s]) = toUser(users[i])]_vars

(***************************************************************************)
(* Work records: the hosted store (src/services/storage.ts)                *)
(***************************************************************************)
MaxRecords == 2      \* work_records rows the store may ever be given
MaxInFlight == 2     \* calls of one kind the store has yet to answer

\* a row of table work_records (snake_case columns); photos and timestamp,
\* which no operation modelled here reads, are left out
RecordRow(id, record) ==
    [id |-> id, user_id |-> record.userId, date |-> record.date,
     mode |-> record.mode, type |-> record.type, quantity |-> record.quantity,
     value |-> record.value, route_names |-> record.routeNames,
     is_two_ids |-> record.isTwoIDs]

\* the WorkRecord object the service hands to the views (camelCase fields)
toWorkRecord(r) ==
    [id |-> r.id, userId |-> r.user_id, date |-> r.date, mode |-> r.mode,
     type |-> r.type, quantity |-> r.quantity, value |-> r.value,
     routeNames |-> r.route_names, isTwoIDs |-> r.is_two_ids]

\* createRecord: the table after the insert; the store assigns the id
createRecord(recs, n, record) ==
    IF storeUp THEN Append(recs, RecordRow(n + 1, record)) ELSE recs

(***************************************************************************)
(* CalculatorView (src/App.tsx)                                            *)
(***************************************************************************)
Today == 20240305
NoDate == 0               \* the date input emptied

\* the text of a numeric input, character by character
Text0 == <<>>
ParcelTexts == {Text0, <<"0">>, <<"2">>, <<"-", "1">>}
CollectionTexts == {Text0, <<"0">>, <<"3">>}
QtyTexts == {Text0, <<"2", "5", "1">>}
RouteTexts1 == {"", "101"}
RouteTexts2 == {"", "102"}
Modes == {"INDIVIDUAL", "DAILY"}

DigitChars == <<"0", "1", "2", "3", "4", "5", "6", "7", "8", "9">>
IsDigit(c) == \E d \in 1..10 : DigitChars[d] = c
DigitValue(c) == (CHOOSE d \in 1..10 : DigitChars[d] = c) - 1

NaN == [nan |-> TRUE, n |-> 0]
Num(n) == [nan |-> FALSE, n |-> n]

\* value of the leading run of digits of t, given the value acc read so far
RECURSIVE leadingDigits(_, _, _)
leadingDigits(t, acc, seen) ==
    IF t = <<>> \/ ~IsDigit(Head(t))
    THEN IF seen THEN Num(acc) ELSE NaN
    ELSE leadingDigits(Tail(t), 10 * acc + DigitValue(Head(t)), TRUE)

\* parseInt: an optional sign, then digits up to the first other character
parseInt(t) ==
    IF t # <<>> /\ Head(t) = "-"
    THEN LET m == leadingDigits(Tail(t), 0, FALSE)
         IN  IF m.nan THEN NaN ELSE Num(0 - m.n)
    ELSE IF t # <<>> /\ Head(t) = "+" THEN leadingDigits(Tail(t), 0, FALSE)
    ELSE leadingDigits(t, 0, FALSE)

Falsy(x) == x.nan \/ x.n = 0            \* !x
OrZero(x) == IF Falsy(x) THEN 0 ELSE x.n  \* x || 0
Positive(x) == ~x.nan /\ x.n > 0        \* x > 0

FormInit ==
    [mode |-> "INDIVIDUAL", date |-> Today, parcels |-> Text0, collections |-> Text0,
     isTwoIDs |-> FALSE, dailyQty |-> Text0, routeId1 |-> "", routeId2 |-> ""]

SaveIdle(alert) ==
    [loading |-> FALSE, issued |-> <<>>, left |-> 0, failed |-> FALSE, alert |-> alert]

\* plausible slip: the memo computed from the individual fields whatever the mode
previewValueIgnoresMode(f) ==
    calculateIndividual(OrZero(parseInt(f.parcels)), OrZero(parseInt(f.collections))).total

\* CalculatorView.previewValue: the memo of the render that handleSave runs in
previewValue(f) ==
    IF f.mode = "INDIVIDUAL"
    THEN calculateIndividual(OrZero(parseInt(f.parcels)), OrZero(parseInt(f.collections))).total
    ELSE calculateDaily(f.isTwoIDs, OrZero(parseInt(f.dailyQty)))

SaveParcelRate == 100
SaveCollectionRate == 80

\* plausible slip: a record for every count that is not zero
individualDraftsNonZero(f, userId) ==
    LET pQty == parseInt(f.parcels)
        cQty == parseInt(f.collections)
        parcel == [userId |-> userId, date |-> f.date, mode |-> f.mode, type |-> "PARCEL",
                   quantity |-> pQty.n, value |-> pQty.n * SaveParcelRate,
                   routeNames |-> Some(f.routeId1), isTwoIDs |-> FALSE]
        collection == [userId |-> userId, date |-> f.date, mode |-> f.mode, type |-> "COLLECTION",
                       quantity |-> cQty.n, value |-> cQty.n * SaveCollectionRate,
                       routeNames |-> Some(f.routeId1), isTwoIDs |-> FALSE]
    IN  (IF ~Falsy(pQty) THEN <<parcel>> ELSE <<>>)
        \o (IF ~Falsy(cQty) THEN <<collection>> ELSE <<>>)

\* handleSave, INDIVIDUAL: the records handed to createRecord
individualDrafts(f, userId) ==
    LET pQty == parseInt(f.parcels)
        cQty == parseInt(f.collections)
        parcel == [userId |-> userId, date |-> f.date, mode |-> f.mode, type |-> "PARCEL",
                   quantity |-> pQty.n, value |-> pQty.n * SaveParcelRate,
                   routeNames |-> Some(f.routeId1), isTwoIDs |-> FALSE]
        collection == [userId |-> userId, date |-> f.date, mode |-> f.mode, type |-> "COLLECTION",
                       quantity |-> cQty.n, value |-> cQty.n * SaveCollectionRate,
                       routeNames |-> Some(f.routeId1), isTwoIDs |-> FALSE]
    IN  (IF Positive(pQty) THEN <<parcel>> ELSE <<>>)
        \o (IF Positive(cQty) THEN <<collection>> ELSE <<>>)

\* handleSave, DAILY: the record handed to createRecord
dailyDraft(f, userId) ==
    LET qty == OrZero(parseInt(f.dailyQty))
        finalRouteNames == IF f.isTwoIDs THEN f.routeId1 \o " + " \o f.routeId2 ELSE f.routeId1
        singleRouteName == IF ~f.isTwoIDs /\ f.routeId1 # "" THEN Some(f.routeId1) ELSE Null
    IN  [userId |-> userId, date |-> f.date, mode |-> f.mode, type |-> "DAILY_FLAT",
         quantity |-> IF f.isTwoIDs THEN qty ELSE 1,
         value |-> previewValue(f),
         routeNames |-> IF finalRouteNames # "" THEN Some(finalRouteNames) ELSE singleRouteName,
         isTwoIDs |-> f.isTwoIDs]

\* handleSave: the message it alerts before any createRecord call, "" if none
saveRefusal(f) ==
    IF f.date = NoDate THEN "Selecione uma data"
    ELSE IF f.mode = "INDIVIDUAL"
    THEN IF Falsy(parseInt(f.parcels)) /\ Falsy(parseInt(f.collections))
         THEN "Preencha ao menos parcelas ou coletas." ELSE ""
    ELSE IF f.isTwoIDs /\ (f.routeId1 = "" \/ f.routeId2 = "")
         THEN "Digite os IDs das duas rotas." ELSE ""

saveDrafts(f, userId) ==
    IF f.mode = "INDIVIDUAL" THEN individualDrafts(f, userId) ELSE <<dailyDraft(f, userId)>>

Driver == "tabA"          \* the session whose record views are followed
DriverId == Val(currentUser[Driver]).id

StoreFrame == UNCHANGED <<calcVars, seqVars, storeUp, users, initPc, appLoading, login>>

RecFrame == StoreFrame /\ UNCHANGED admin

CalculatorShown == route = "/new-record" /\ currentUser[Driver] # Null

\* DashboardView / NavItem: navigate('/new-record') mounts a fresh CalculatorView
OpenCalculator ==
    /\ currentUser[Driver] # Null
    /\ Val(currentUser[Driver]).role = "DRIVER"
    /\ route = "/"
    /\ created < MaxRecords
    /\ route' = "/new-record"
    /\ form' = FormInit
    /\ save' = SaveIdle("")
    /\ UNCHANGED <<records, created, creates, hist, currentUser>>
    /\ RecFrame

\* an edit: alert() blocks the page, so a message shown has been dismissed
EditFrame ==
    /\ save' = [save EXCEPT !.alert = ""]
    /\ UNCHANGED <<records, created, route, creates, hist, currentUser>>
    /\ RecFrame

setMode(m) ==
    /\ CalculatorShown
    /\ form' = [form EXCEPT !.mode = m]
    /\ EditFrame

setDate(d) ==
    /\ CalculatorShown
    /\ form' = [form EXCEPT !.date = d]
    /\ EditFrame

setParcels(t) ==
    /\ CalculatorShown /\ form.mode = "INDIVIDUAL"
    /\ form' = [form EXCEPT !.parcels = t]
    /\ EditFrame

setCollections(t) ==
    /\ CalculatorShown /\ form.mode = "INDIVIDUAL"
    /\ form' = [form EXCEPT !.collections = t]
    /\ EditFrame

setIsTwoIDs(b) ==
    /\ CalculatorShown /\ form.mode = "DAILY"
    /\ form' = [form EXCEPT !.isTwoIDs = b]
    /\ EditFrame

setDailyQty(t) ==
    /\ CalculatorShown /\ form.mode = "DAILY" /\ form.isTwoIDs
    /\ form' = [form EXCEPT !.dailyQty = t]
    /\ EditFrame

setRouteId1(t) ==
    /\ CalculatorShown
    /\ form' = [form EXCEPT !.routeId1 = t]
    /\ EditFrame

setRouteId2(t) ==
    /\ CalculatorShown /\ form.mode = "DAILY" /\ form.isTwoIDs
    /\ form' = [form EXCEPT !.routeId2 = t]
    /\ EditFrame

Awaited(drafts) == [i \in 1..Len(drafts) |-> [record |-> drafts[i], awaited |-> TRUE]]

\* CalculatorView.handleSave up to its await
handleSave ==
    /\ CalculatorShown
    /\ ~save.loading
    /\ saveRefusal(form) = "" => Len(creates) + Len(saveDrafts(form, DriverId)) <= MaxInFlight
    /\ IF saveRefusal(form) # ""
       THEN /\ save' = SaveIdle(saveRefusal(form))
            /\ creates' = creates
       ELSE LET drafts == saveDrafts(form, DriverId)
            IN  /\ creates' = creates \o Awaited(drafts)
                /\ save' = [loading |-> TRUE, issued |-> drafts, left |-> Len(drafts),
                             failed |-> FALSE, alert |-> ""]
    /\ UNCHANGED <<records, created, route, form, hist, currentUser>>
    /\ RecFrame

Without(seq, i) == SubSeq(seq, 1, i - 1) \o SubSeq(seq, i + 1, Len(seq))

\* the store performs (or refuses) the insert of one createRecord call in flight
CreateAtStore(i) ==
    /\ i \in 1..Len(creates)
    /\ created < MaxRecords
    /\ records' = createRecord(records, created, creates[i].record)
    /\ created' = IF storeUp THEN created + 1 ELSE created
    /\ creates' = Without(creates, i)
    /\ save' = IF ~creates[i].awaited THEN save
               ELSE [save EXCEPT !.left = @ - 1, !.failed = @ \/ ~storeUp]
    /\ UNCHANGED <<route, form, hist, currentUser>>
    /\ RecFrame

\* plausible slip: navigate('/') moved to the finally block
SaveSettlesNavigatesAnyway ==
    /\ save.loading
    /\ save.failed \/ save.left = 0
    /\ route' = "/"
    /\ form' = <<>>
    /\ save' = SaveIdle(IF save.failed THEN "Erro ao salvar registro: " \o StoreError ELSE "")
    /\ creates' = [i \in 1..Len(creates) |-> [creates[i] EXCEPT !.awaited = FALSE]]
    /\ UNCHANGED <<records, created, hist, currentUser>>
    /\ RecFrame

\* handleSave after its await: navigate('/') or alert, and setLoading(false)
SaveSettles ==
    /\ save.loading
    /\ save.failed \/ save.left = 0
    /\ IF save.failed
       THEN /\ save' = SaveIdle("Erro ao salvar registro: " \o StoreError)
            /\ creates' = [i \in 1..Len(creates) |-> [creates[i] EXCEPT !.awaited = FALSE]]
            /\ UNCHANGED <<route, form>>
       ELSE /\ route' = "/"
            /\ form' = <<>>
            /\ save' = SaveIdle("")
            /\ creates' = creates
    /\ UNCHANGED <<records, created, hist, currentUser>>
    /\ RecFrame

\* a registered driver, logged in, on the dashboard
FormInit0 ==
    /\ CalcUnused
    /\ SeqUnused
    /\ storeUp = TRUE
    /\ users = <<UserRow(1, "System Admin", "admin", "EVRI01", "ADMIN"),
                 UserRow(2, "Bob", "bob", "pw", "DRIVER")>>
    /\ initPc = [s \in Sessions |-> [k \in InitCallers |-> "done"]]
    /\ appLoading = [s \in Sessions |-> FALSE]
    /\ currentUser = [s \in Sessions |-> IF s = Driver THEN Some(toUser(users[2])) ELSE Null]
    /\ login = [s \in Sessions |-> LoginIdle("")]
    /\ RecUnused

FormNext ==
    \/ OpenCalculator
    \/ \E m \in Modes : setMode(m)
    \/ \E d \in {NoDate, Today} : setDate(d)
    \/ \E t \in ParcelTexts : setParcels(t)
    \/ \E t \in CollectionTexts : setCollections(t)
    \/ \E b \in BOOLEAN : setIsTwoIDs(b)
    \/ \E t \in QtyTexts : setDailyQty(t)
    \/ \E t \in RouteTexts1 : setRouteId1(t)
    \/ \E t \in RouteTexts2 : setRouteId2(t)
    \/ handleSave
    \/ \E i \in 1..MaxRecords : CreateAtStore(i)
    \/ SaveSettles

SpecForm == FormInit0 /\ [][FormNext]_vars

\* the Pay Calculator's value for a stored row's own mode, type, quantity, flag
PayOf(r) ==
    IF r.type = "PARCEL" THEN calculateIndividual(r.quantity, 0).total
    ELSE IF r.type = "COLLECTION" THEN calculateIndividual(0, r.quantity).total
    ELSE calculateDaily(r.is_two_ids, r.quantity)

ValuesDerived == \A i \in 1..Len(records) : records[i].value = PayOf(records[i])

ValuesKept ==
    \A i \in 1..Len(records), j \in 1..Len(records') :
        records[i].id = records'[j].id => records'[j].value = records[i].value

\* C3: every work record in the store has the value the Pay Calculator gives
\* for its own stored mode, type, quantity and isTwoIDs, after any sequence of
\* form edits and saves; and no step changes the value of a stored record.
C3_ValueDerived == [](ValuesDerived) /\ [][ValuesKept]_vars

\* a two-ID daily record of the top tier and a collection record are stored
C3_Witness ==
    \E i, j \in 1..Len(records) :
        /\ records[i].type = "DAILY_FLAT" /\ records[i].is_two_ids
        /\ records[i].quantity = 251 /\ records[i].value = 36000
        /\ records[j].type = "COLLECTION" /\ records[j].value = 240

(***************************************************************************)
(* Work records read and deleted: storage service and HistoryView          *)
(***************************************************************************)
MaxSaved == 3        \* ids the store hands out

HistUsernames == {"bob", "carol"}

\* plausible slip: the owner filter dropped
whereUserIdAll(recs, userId) == recs

\* .eq('user_id', userId)
whereUserId(recs, userId) == SelectSeq(recs, LAMBDA r : r.user_id = userId)

\* .order('date', { ascending: false }): rows of equal date in any order
orderedByDateDesc(rows) ==
    {[k \in 1..Len(rows) |-> rows[p[k]]] :
        p \in {q \in [1..Len(rows) -> 1..Len(rows)] :
                 /\ \A a, b \in 1..Len(rows) : a # b => q[a] # q[b]
                 /\ \A a, b \in 1..Len(rows) : a < b => rows[q[a]].date >= rows[q[b]].date}}

\* getUserRecords: the lists the call may return
getUserRecords(recs, userId) ==
    IF ~storeUp THEN {<<>>}
    ELSE {[k \in 1..Len(rows) |-> toWorkRecord(rows[k])] :
             rows \in orderedByDateDesc(whereUserId(recs, userId))}

\* Array.prototype.sort with b.date.localeCompare(a.date): stable, newest first
RECURSIVE sortNewestFirst(_)
sortNewestFirst(rows) ==
    IF rows = <<>> THEN <<>>
    ELSE LET sorted == sortNewestFirst(SubSeq(rows, 1, Len(rows) - 1))
             last == rows[Len(rows)]
             n == Cardinality({k \in 1..Len(sorted) : sorted[k].date >= last.date})
         IN  SubSeq(sorted, 1, n) \o <<last>> \o SubSeq(sorted, n + 1, Len(sorted))

\* getUserRecords of the local variant: one list, whatever the store
localGetUserRecords(recs, userId) ==
    LET rows == sortNewestFirst(SelectSeq(recs, LAMBDA r : r.user_id = userId))
    IN  {[k \in 1..Len(rows) |-> toWorkRecord(rows[k])]}

\* deleteRecord of the local variant
localDeleteRecord(recs, recordId) == SelectSeq(recs, LAMBDA r : r.id # recordId)

\* plausible slip: the rows of the record's owner deleted, not the row of the id
deleteRecordOfOwner(recs, recordId) ==
    IF storeUp
    THEN SelectSeq(recs, LAMBDA r : \A x \in 1..Len(recs) :
                                        recs[x].id = recordId => r.user_id # recs[x].user_id)
    ELSE recs

\* deleteRecord: the table after .delete().eq('id', recordId)
deleteRecord(recs, recordId) ==
    IF storeUp THEN SelectSeq(recs, LAMBDA r : r.id # recordId) ELSE recs

HistEmpty == [records |-> <<>>, deletes |-> <<>>, refreshes |-> <<>>]
Sent(userId) == [userId |-> userId, state |-> "sent", data |-> <<>>]

\* HistoryView mounts for the user: nothing shown, refresh() called
HistMounted(h, userId) ==
    [records |-> <<>>,
     deletes |-> [k \in 1..Len(h.deletes) |-> [h.deletes[k] EXCEPT !.mounted = FALSE]],
     refreshes |-> <<Sent(userId)>>]

\* HistoryView unmounts: its pending answers no longer reach any state
HistUnmounted(h) ==
    [records |-> <<>>,
     deletes |-> [k \in 1..Len(h.deletes) |-> [h.deletes[k] EXCEPT !.mounted = FALSE]],
     refreshes |-> <<>>]

\* HistoryView is rendered: by the route /history of a driver, or by
\* AdminView for the driver selected
HistoryShown ==
    /\ currentUser[Driver] # Null
    /\ IF Val(currentUser[Driver]).role = "DRIVER" THEN route = "/history"
       ELSE admin.selectedDriver # Null

\* HistoryView's user prop
HistoryUser ==
    IF Val(currentUser[Driver]).role = "DRIVER" THEN DriverId
    ELSE Val(admin.selectedDriver).id

HistFrame == UNCHANGED <<form, creates, save>> /\ RecFrame

\* navigate('/history')
OpenHistory ==
    /\ currentUser[Driver] # Null
    /\ Val(currentUser[Driver]).role = "DRIVER"
    /\ route = "/"
    /\ route' = "/history"
    /\ hist' = HistMounted(hist, DriverId)
    /\ UNCHANGED <<records, created, currentUser>>
    /\ HistFrame

\* navigate('/') from the history
CloseHistory ==
    /\ HistoryShown
    /\ Val(currentUser[Driver]).role = "DRIVER"
    /\ route' = "/"
    /\ hist' = HistUnmounted(hist)
    /\ UNCHANGED <<records, created, currentUser>>
    /\ HistFrame

\* App.handleLogout: the views of the user unmount, the route stays
LogoutFromRoute ==
    /\ currentUser[Driver] # Null
    /\ currentUser' = [currentUser EXCEPT ![Driver] = Null]
    /\ hist' = HistUnmounted(hist)
    /\ admin' = AdminIdle
    /\ UNCHANGED <<records, created, route, form, creates, save>>
    /\ StoreFrame

\* LoginView.handleSubmit, driver tab: the view of the current route mounts
LoginToRoute(username, password) ==
    LET user == authenticate(users, username, password, "DRIVER")
    IN  /\ currentUser[Driver] = Null
        /\ user # Null
        /\ currentUser' = [currentUser EXCEPT ![Driver] = user]
        /\ hist' = IF route = "/history" THEN HistMounted(hist, Val(user).id) ELSE hist
        /\ UNCHANGED <<records, created, route>>
        /\ HistFrame

\* a save made from the calculator, from the dashboard and back to it
SaveFromCalculator(f) ==
    /\ currentUser[Driver] # Null
    /\ Val(currentUser[Driver]).role = "DRIVER"
    /\ route = "/"
    /\ created < MaxSaved
    /\ saveRefusal(f) = ""
    /\ Len(saveDrafts(f, DriverId)) = 1
    /\ records' = createRecord(records, created, saveDrafts(f, DriverId)[1])
    /\ created' = created + 1
    /\ UNCHANGED <<route, hist, currentUser>>
    /\ HistFrame

\* HistoryView.handleDelete, confirmed: deleteRecord(id) is called
handleDelete(id) ==
    /\ HistoryShown
    /\ \E k \in 1..Len(hist.records) : hist.records[k].id = id
    /\ Len(hist.deletes) + Len(hist.refreshes) < MaxInFlight
    /\ hist' = [hist EXCEPT !.deletes = Append(@, [id |-> id, mounted |-> TRUE])]
    /\ UNCHANGED <<records, created, route, currentUser>>
    /\ HistFrame

\* the store performs one deleteRecord call; handleDelete goes on to refresh()
DeleteAtStore(k) ==
    /\ k \in 1..Len(hist.deletes)
    /\ records' = IF seqImpl = "hosted" THEN deleteRecord(records, hist.deletes[k].id)
                  ELSE localDeleteRecord(records, hist.deletes[k].id)
    /\ hist' = [hist EXCEPT
                  !.deletes = Without(@, k),
                  !.refreshes = IF (storeUp \/ seqImpl = "local") /\ hist.deletes[k].mounted
                                THEN Append(@, Sent(HistoryUser)) ELSE @]
    /\ UNCHANGED <<created, route, currentUser>>
    /\ HistFrame

\* the store answers one getUserRecords call of refresh()
RefreshAtStore(k) ==
    /\ k \in 1..Len(hist.refreshes)
    /\ hist.refreshes[k].state = "sent"
    /\ \E data \in IF seqImpl = "hosted"
                    THEN getUserRecords(records, hist.refreshes[k].userId)
                    ELSE localGetUserRecords(records, hist.refreshes[k].userId) :
           hist' = [hist EXCEPT !.refreshes[k] = [@ EXCEPT !.state = "answered", !.data = data]]
    /\ UNCHANGED <<records, created, route, currentUser>>
    /\ HistFrame

\* refresh(): the answer arrives, setRecords(data)
RefreshArrives(k) ==
    /\ k \in 1..Len(hist.refreshes)
    /\ hist.refreshes[k].state = "answered"
    /\ hist' = [hist EXCEPT !.records = hist.refreshes[k].data,
                            !.refreshes = Without(@, k)]
    /\ UNCHANGED <<records, created, route, currentUser>>
    /\ HistFrame

LaterDay == 20240401

\* the forms saved: two parcels on a later day, or a one-ID day today
HistForms ==
    {[FormInit EXCEPT !.parcels = <<"2">>, !.date = LaterDay],
     [FormInit EXCEPT !.mode = "DAILY"]}

\* the records saved before: three collections by carol, two parcels by bob
HistRecords0 ==
    <<RecordRow(1, individualDrafts([FormInit EXCEPT !.collections = <<"3">>], 3)[1]),
      RecordRow(2, individualDrafts([FormInit EXCEPT !.parcels = <<"2">>], 2)[1])>>

\* two registered drivers, a record of each, nobody logged in; either variant
\* of the service
HistInit ==
    /\ CalcUnused
    /\ seqImpl \in {"hosted", "local"}
    /\ seqPrev = NoCall
    /\ localStore = LocalEmpty
    /\ seqLast = NoCall
    /\ storeUp = TRUE
    /\ users = <<UserRow(1, "System Admin", "admin", "EVRI01", "ADMIN"),
                 UserRow(2, "Bob", "bob", "pw", "DRIVER"),
                 UserRow(3, "Bob", "carol", "pw", "DRIVER")>>
    /\ SessionsUnused
    /\ records = HistRecords0
    /\ created = Len(HistRecords0)
    /\ route = "/"
    /\ form = <<>>
    /\ creates = <<>>
    /\ save = SaveIdle("")
    /\ hist = HistEmpty
    /\ admin = AdminIdle

HistNext ==
    \/ \E username \in HistUsernames, password \in Passwords :
           LoginToRoute(username, password)
    \/ LogoutFromRoute
    \/ OpenHistory
    \/ CloseHistory
    \/ \E f \in HistForms : SaveFromCalculator(f)
    \/ \E id \in 1..MaxSaved : handleDelete(id)
    \/ \E k \in 1..MaxInFlight : DeleteAtStore(k)
    \/ \E k \in 1..MaxInFlight : RefreshAtStore(k)
    \/ \E k \in 1..MaxInFlight : RefreshArrives(k)

SpecHist == HistInit /\ [][HistNext]_vars

InTable(recs, id) == \E i \in 1..Len(recs) : recs[i].id = id

\* what one deleteRecord(id) call did to the store
DeleteEffect(id) ==
    /\ \A i \in 1..Len(records) :
           records[i].id # id => \E j \in 1..Len(records') : records'[j] = records[i]
    /\ \A j \in 1..Len(records') :
           records'[j].id # id /\ \E i \in 1..Len(records) : records[i] = records'[j]
    /\ users' = users
    /\ ~InTable(records, id) => records' = records

\* C9: every deleteRecord(id) call removes the record of that id if there is
\* one and leaves every other work record and every user as it was; when no
\* record has the id the records stay as they are and the call does not fail,
\* so that handleDelete goes on to its refresh().
C9_DeleteOnlyThatId ==
    [][\A k \in 1..MaxInFlight :
           DeleteAtStore(k) =>
               /\ DeleteEffect(hist.deletes[k].id)
               /\ hist.deletes[k].mounted =>
                      /\ Len(hist'.refreshes) = Len(hist.refreshes) + 1
                      /\ hist'.refreshes[Len(hist'.refreshes)].state = "sent"]_vars

\* two deletes of the driver's only record have both returned, the second
\* having found no record of the id, and the other driver's record is there
C9_Witness ==
    /\ currentUser[Driver] # Null
    /\ created = 2
    /\ Len(records) = 1
    /\ records[1].user_id # DriverId
    /\ hist.deletes = <<>>
    /\ Len(hist.refreshes) = 2

SameRecord(w, r) ==
    /\ w.id = r.id /\ w.userId = r.user_id /\ w.date = r.date /\ w.mode = r.mode
    /\ w.type = r.type /\ w.quantity = r.quantity /\ w.value = r.value
    /\ w.routeNames = r.route_names /\ w.isTwoIDs = r.is_two_ids

ExactlyOwned(data, recs, userId) ==
    /\ \A i \in 1..Len(recs) :
           recs[i].user_id = userId => \E j \in 1..Len(data) : SameRecord(data[j], recs[i])
    /\ \A j \in 1..Len(data) :
           /\ data[j].userId = userId
           /\ \E i \in 1..Len(recs) : SameRecord(data[j], recs[i])
    /\ \A a, b \in 1..Len(data) : a < b => data[a].id # data[b].id
    /\ \A a, b \in 1..Len(data) : a < b => data[a].date >= data[b].date

\* C10: on a working store every getUserRecords(userId) call returns exactly
\* the records whose owner is userId, none of another user and none missing,
\* and no record of the list comes before one of a later date.
C10_OwnNewestFirst ==
    [][\A k \in 1..MaxInFlight :
           (storeUp /\ RefreshAtStore(k)) =>
               ExactlyOwned(hist'.refreshes[k].data, records, hist.refreshes[k].userId)]_vars

\* an answer of two records, the later saved one first because of its later
\* date, while the table also holds a record of the other driver
C10_Witness ==
    \E k \in 1..Len(hist.refreshes) :
        LET data == hist.refreshes[k].data
        IN  /\ hist.refreshes[k].state = "answered"
            /\ Len(data) = 2
            /\ data[1].id > data[2].id
            /\ data[1].date > data[2].date
            /\ InTable(records, data[1].id) /\ InTable(records, data[2].id)
            /\ \E i \in 1..Len(records) : records[i].user_id # hist.refreshes[k].userId

(***************************************************************************)
(* HistoryView.groupedRecords (src/App.tsx): the monthly grouping          *)
(***************************************************************************)
MaxShown == 3        \* records of the list that is grouped

\* r.date.substring(0, 7): the YYYY-MM of a date YYYY-MM-DD
monthKey(date) == date \div 100

NoGroup == 0

\* position in groups of the group of key, NoGroup when groups[key] is undefined
groupAt(groups, key) ==
    IF \E g \in 1..Len(groups) : groups[g].monthKey = key
    THEN CHOOSE g \in 1..Len(groups) : groups[g].monthKey = key
    ELSE NoGroup

\* the forEach body: the record pushed to the group of its month and added to
\* its total, the group created first when the month is new
addToGroup(groups, r) ==
    LET key == monthKey(r.date)
        gs == IF groupAt(groups, key) = NoGroup
              THEN Append(groups, [monthKey |-> key, total |-> 0, records |-> <<>>])
              ELSE groups
        g == groupAt(gs, key)
    IN  [gs EXCEPT ![g] = [@ EXCEPT !.records = Append(@, r), !.total = @ + r.value]]

RECURSIVE forEachRecord(_, _)
forEachRecord(groups, recs) ==
    IF recs = <<>> THEN groups
    ELSE forEachRecord(addToGroup(groups, Head(recs)), Tail(recs))

\* sort((a, b) => b.monthKey.localeCompare(a.monthKey)): stable, latest month first
RECURSIVE sortLatestMonthFirst(_)
sortLatestMonthFirst(groups) ==
    IF groups = <<>> THEN <<>>
    ELSE LET sorted == sortLatestMonthFirst(SubSeq(groups, 1, Len(groups) - 1))
             last == groups[Len(groups)]
             n == Cardinality({k \in 1..Len(sorted) : sorted[k].monthKey >= last.monthKey})
         IN  SubSeq(sorted, 1, n) \o <<last>> \o SubSeq(sorted, n + 1, Len(sorted))

\* plausible slip: every record pushed to the first group
groupedRecordsOneGroup(recs) ==
    IF recs = <<>> THEN <<>>
    ELSE <<[monthKey |-> monthKey(recs[1].date),
            total |-> forEachRecord(<<>>, <<recs[1]>>)[1].total,
            records |-> recs]>>

\* HistoryView.groupedRecords; the label, which nothing computed here reads,
\* is left out
groupedRecords(recs) == sortLatestMonthFirst(forEachRecord(<<>>, recs))

GroupDates == {20231231, 20240305, 20240320, 20240401}
GroupValues == {200, 18000}

\* a record of the list shown, identified by its place
ShownRecord(id, date, value) ==
    [id |-> id, userId |-> 2, date |-> date, value |-> value]

ShownLists ==
    UNION {{[k \in 1..n |-> ShownRecord(k, d[k], v[k])] :
               d \in [1..n -> GroupDates], v \in [1..n -> GroupValues]} : n \in 0..MaxShown}

\* the memo is computed for the list shown
CallGroupedRecords ==
    /\ calcOut = Null
    /\ calcIn.fn = "groupedRecords"
    /\ calcOut' = Some(groupedRecords(calcIn.records))
    /\ UNCHANGED <<storeUp, users>> /\ CalcFrame

GroupInit ==
    /\ calcIn \in [fn : {"groupedRecords"}, records : ShownLists]
    /\ calcOut = Null
    /\ storeUp = TRUE
    /\ users = <<>>
    /\ SeqUnused
    /\ SessionsUnused
    /\ RecUnused

GroupNext == CallGroupedRecords

SpecGroup == GroupInit /\ [][GroupNext]_vars

RECURSIVE SumValues(_)
SumValues(recs) == IF recs = <<>> THEN 0 ELSE Head(recs).value + SumValues(Tail(recs))

\* C11: the monthly grouping of a record list is a partition: every record is
\* in exactly one group, the group whose monthKey is the YYYY-MM of its date;
\* each group's total is the sum of the values of its records; the groups come
\* in strictly descending order of monthKey.
C11_MonthlyPartition ==
    (calcIn.fn = "groupedRecords" /\ calcOut # Null) =>
        LET recs == calcIn.records
            groups == Val(calcOut)
            Places(r) == {<<g, k>> \in (1..Len(groups)) \X (1..MaxShown) :
                             k <= Len(groups[g].records) /\ groups[g].records[k] = r}
        IN  /\ \A i \in 1..Len(recs) :
                   /\ Cardinality(Places(recs[i])) = 1
                   /\ \A pl \in Places(recs[i]) :
                          groups[pl[1]].monthKey = recs[i].date \div 100
            /\ \A g \in 1..Len(groups) :
                   /\ groups[g].records # <<>>
                   /\ \A k \in 1..Len(groups[g].records) :
                          \E i \in 1..Len(recs) : recs[i] = groups[g].records[k]
                   /\ groups[g].total = SumValues(groups[g].records)
            /\ \A g, h \in 1..Len(groups) : g < h => groups[g].monthKey > groups[h].monthKey

\* 2024-03-05 and 2024-03-20 grouped under 2024-03 with the sum of their
\* values, after the group of 2024-04-01
C11_Witness ==
    /\ calcIn.fn = "groupedRecords"
    /\ calcOut # Null
    /\ Len(calcIn.records) = 3
    /\ calcIn.records[1].date = 20240305 /\ calcIn.records[1].value = 200
    /\ calcIn.records[2].date = 20240401
    /\ calcIn.records[3].date = 20240320 /\ calcIn.records[3].value = 18000
    /\ Len(Val(calcOut)) = 2
    /\ Val(calcOut)[1].monthKey = 202404
    /\ Val(calcOut)[2].monthKey = 202403
    /\ Val(calcOut)[2].total = 18200

(***************************************************************************)
(* generateCSV (src/services/storage.ts): the text of the export           *)
(***************************************************************************)
MaxCsv == 2          \* records of one export

Comma == ","
NewLine == "\n"

\* the characters of the strings the export writes as they are
CsvRouteTexts == {"", "101 + 102", "A,B"}
CharsOf ==
    [t \in {"PARCEL", "COLLECTION", "DAILY_FLAT", "INDIVIDUAL", "DAILY"} \cup CsvRouteTexts |->
        CASE t = "PARCEL" -> <<"P", "A", "R", "C", "E", "L">>
          [] t = "COLLECTION" -> <<"C", "O", "L", "L", "E", "C", "T", "I", "O", "N">>
          [] t = "DAILY_FLAT" -> <<"D", "A", "I", "L", "Y", "_", "F", "L", "A", "T">>
          [] t = "INDIVIDUAL" -> <<"I", "N", "D", "I", "V", "I", "D", "U", "A", "L">>
          [] t = "DAILY" -> <<"D", "A", "I", "L", "Y">>
          [] t = "101 + 102" -> <<"1", "0", "1", " ", "+", " ", "1", "0", "2">>
          [] t = "A,B" -> <<"A", ",", "B">>
          [] OTHER -> <<>>]

\* the decimal digits of a natural number
RECURSIVE digitsOf(_)
digitsOf(n) ==
    IF n < 10 THEN <<DigitChars[n + 1]>>
    ELSE digitsOf(n \div 10) \o <<DigitChars[(n % 10) + 1]>>

\* Number.prototype.toString of an integer
toStringInt(n) == IF n < 0 THEN <<"-">> \o digitsOf(0 - n) ELSE digitsOf(n)

\* digits of n padded with zeros to the width w
RECURSIVE padded(_, _)
padded(n, w) == IF w = 0 THEN <<>> ELSE padded(n \div 10, w - 1) \o <<DigitChars[(n % 10) + 1]>>

\* value.toFixed(2) of an amount, counted here in pence
toFixed2(pence) == digitsOf(pence \div 100) \o <<".">> \o padded(pence % 100, 2)

\* the stored date string YYYY-MM-DD
dateString(d) ==
    padded(d \div 10000, 4) \o <<"-">> \o padded((d \div 100) % 100, 2)
        \o <<"-">> \o padded(d % 100, 2)

\* Array.prototype.join
RECURSIVE join(_, _)
join(parts, sep) ==
    IF parts = <<>> THEN <<>>
    ELSE IF Len(parts) = 1 THEN parts[1]
    ELSE parts[1] \o <<sep>> \o join(Tail(parts), sep)

csvHeaders == <<<<"D", "a", "t", "a">>, <<"T", "i", "p", "o">>, <<"M", "o", "d", "o">>, <<"Q", "t", "d">>, <<"V", "a", "l", "o", "r">>, <<"R", "o", "t", "a", "s">>, <<"I", "D">>>>

\* r.routeNames || '-'
routeCell(r) ==
    IF r.routeNames = Null \/ Val(r.routeNames) = "" THEN <<"-">>
    ELSE CharsOf[Val(r.routeNames)]

\* plausible slip: the amount written without its decimals
csvRowWholeValue(r) ==
    <<dateString(r.date), CharsOf[r.type], CharsOf[r.mode], toStringInt(r.quantity),
      digitsOf(r.value \div 100), routeCell(r), toStringInt(r.id)>>

\* one line of the file: records.map(r => [...])
csvRow(r) ==
    <<dateString(r.date), CharsOf[r.type], CharsOf[r.mode], toStringInt(r.quantity),
      toFixed2(r.value), routeCell(r), toStringInt(r.id)>>

\* generateCSV: csvContent, the text handed to the download
generateCSV(recs) ==
    join(<<join(csvHeaders, Comma)>> \o [k \in 1..Len(recs) |-> join(csvRow(recs[k]), Comma)],
         NewLine)

CsvDates == {20231231, 20240305}
CsvKinds ==
    {[type |-> "PARCEL", mode |-> "INDIVIDUAL", quantity |-> 3, value |-> 300],
     [type |-> "COLLECTION", mode |-> "INDIVIDUAL", quantity |-> 3, value |-> 240],
     [type |-> "DAILY_FLAT", mode |-> "DAILY", quantity |-> 251, value |-> 36000]}
CsvRoutes == {Null} \cup {Some(t) : t \in CsvRouteTexts}

CsvRecord(id, d, k, rn) ==
    [id |-> id, userId |-> 2, date |-> d, mode |-> k.mode, type |-> k.type,
     quantity |-> k.quantity, value |-> k.value, routeNames |-> rn, isTwoIDs |-> FALSE]

CsvLists ==
    UNION {{[i \in 1..n |-> CsvRecord(i, d[i], k[i], rn[i])] :
               d \in [1..n -> CsvDates], k \in [1..n -> CsvKinds], rn \in [1..n -> CsvRoutes]} :
           n \in 0..MaxCsv}

\* the CSV button: generateCSV(records, fileName)
CallGenerateCSV ==
    /\ calcOut = Null
    /\ calcIn.fn = "generateCSV"
    /\ calcOut' = Some(generateCSV(calcIn.records))
    /\ UNCHANGED <<storeUp, users>> /\ CalcFrame

CsvInit ==
    /\ calcIn \in [fn : {"generateCSV"}, records : CsvLists]
    /\ calcOut = Null
    /\ storeUp = TRUE
    /\ users = <<>>
    /\ SeqUnused
    /\ SessionsUnused
    /\ RecUnused

CsvNext == CallGenerateCSV

SpecCsv == CsvInit /\ [][CsvNext]_vars

\* the pieces of text between the occurrences of sep
RECURSIVE Split(_, _)
Split(text, sep) ==
    IF \A k \in 1..Len(text) : text[k] # sep THEN <<text>>
    ELSE LET k == CHOOSE k \in 1..Len(text) :
                      text[k] = sep /\ \A j \in 1..(k - 1) : text[j] # sep
         IN  <<SubSeq(text, 1, k - 1)>> \o Split(SubSeq(text, k + 1, Len(text)), sep)

\* the number a run of digits writes
RECURSIVE ReadNat(_)
ReadNat(t) ==
    IF t = <<>> THEN 0
    ELSE 10 * ReadNat(SubSeq(t, 1, Len(t) - 1)) + DigitValue(t[Len(t)])

AllDigits(t) == t # <<>> /\ \A k \in 1..Len(t) : IsDigit(t[k])

\* the cell writes the integer n
WritesInt(t, n) ==
    IF n < 0 THEN /\ Len(t) >= 2 /\ t[1] = "-" /\ AllDigits(Tail(t)) /\ ReadNat(Tail(t)) = 0 - n
    ELSE AllDigits(t) /\ ReadNat(t) = n

\* the cell writes the amount with exactly two decimals
WritesAmount(t, pence) ==
    /\ Len(t) >= 4
    /\ t[Len(t) - 2] = "."
    /\ AllDigits(SubSeq(t, 1, Len(t) - 3))
    /\ AllDigits(SubSeq(t, Len(t) - 1, Len(t)))
    /\ 100 * ReadNat(SubSeq(t, 1, Len(t) - 3)) + ReadNat(SubSeq(t, Len(t) - 1, Len(t))) = pence

\* the cell writes the date as YYYY-MM-DD
WritesDate(t, d) ==
    /\ Len(t) = 10 /\ t[5] = "-" /\ t[8] = "-"
    /\ AllDigits(SubSeq(t, 1, 4)) /\ AllDigits(SubSeq(t, 6, 7)) /\ AllDigits(SubSeq(t, 9, 10))
    /\ 10000 * ReadNat(SubSeq(t, 1, 4)) + 100 * ReadNat(SubSeq(t, 6, 7))
           + ReadNat(SubSeq(t, 9, 10)) = d

CsvLineOf(line, r) ==
    LET cells == Split(line, Comma)
        n == Len(cells)
    IN  /\ n >= 7
        /\ WritesDate(cells[1], r.date)
        /\ cells[2] = CharsOf[r.type]
        /\ cells[3] = CharsOf[r.mode]
        /\ WritesInt(cells[4], r.quantity)
        /\ WritesAmount(cells[5], r.value)
        /\ join(SubSeq(cells, 6, n - 1), Comma) =
               IF r.routeNames = Null \/ Val(r.routeNames) = "" THEN <<"-">>
               ELSE CharsOf[Val(r.routeNames)]
        /\ WritesInt(cells[n], r.id)

\* C12: generateCSV writes the header line Data,Tipo,Modo,Qtd,Valor,Rotas,ID
\* and then exactly one line per input record, in input order, each made of
\* date, type, mode, quantity, value with two decimals, routeNames or '-' when
\* absent or empty, and id, joined by commas.
C12_CsvLines ==
    (calcIn.fn = "generateCSV" /\ calcOut # Null) =>
        LET recs == calcIn.records
            lines == Split(Val(calcOut), NewLine)
        IN  /\ Len(lines) = Len(recs) + 1
            /\ lines[1] = <<"D", "a", "t", "a", ",", "T", "i", "p", "o", ",", "M", "o", "d", "o", ",", "Q", "t", "d", ",", "V", "a", "l", "o", "r", ",", "R", "o", "t", "a", "s", ",", "I", "D">>
            /\ \A i \in 1..Len(recs) : CsvLineOf(lines[i + 1], recs[i])

\* the export of three parcels of 2024-03-05 without route ends with the line
\* 2024-03-05,PARCEL,INDIVIDUAL,3,3.00,-,2 after a line of a route holding a comma
C12_Witness ==
    /\ calcIn.fn = "generateCSV"
    /\ calcOut # Null
    /\ Len(calcIn.records) = 2
    /\ calcIn.records[1].routeNames = Some("A,B")
    /\ calcIn.records[1].type = "DAILY_FLAT"
    /\ calcIn.records[2].routeNames = Null
    /\ Split(Val(calcOut), NewLine)[3] = <<"2", "0", "2", "4", "-", "0", "3", "-", "0", "5", ",", "P", "A", "R", "C", "E", "L", ",", "I", "N", "D", "I", "V", "I", "D", "U", "A", "L", ",", "3", ",", "3", ".", "0", "0", ",", "-", ",", "2">>

(***************************************************************************)
(* Start-up under a store that may never answer                            *)
(***************************************************************************)
\* the timer of App.init fires and the continuation of a settled race runs;
\* nothing makes the store answer
SpecLive ==
    /\ Init
    /\ [][Next]_vars
    /\ \A s \in Sessions : WF_vars(InitTimeout(s)) /\ WF_vars(InitSettled(s))

\* C13: after App mounts the loading screen is eventually replaced by the
\* login screen, by the settling of initializeStorage or by the timer,
\* even when the store never answers; the step that ends the loading cancels
\* no initializeStorage call, whose pending insert of the admin stays possible
\* with the login screen shown.
C13_LoadingEnds ==
    /\ \A s \in Sessions : <>(~appLoading[s])
    /\ [][\A s \in Sessions :
             (appLoading[s] /\ ~appLoading'[s]) =>
                 /\ initPc' = initPc /\ users' = users
                 /\ currentUser'[s] = Null /\ LoginShown(s)']_vars
    /\ [](\A s \in Sessions :
             (~appLoading[s] /\ initPc[s]["app"] = "insert" /\ Len(users) < MaxUsers)
                 => ENABLED InitInsert(s, "app"))

\* the login screen is shown in a session whose own initializeStorage call
\* has its admin insert still to come
C13_Witness ==
    /\ ~appLoading["tabA"]
    /\ currentUser["tabA"] = Null
    /\ initPc["tabA"]["app"] = "insert"
    /\ users = <<>>

(***************************************************************************)
(* Service calls on a store that may fail (src/services/storage.ts)        *)
(***************************************************************************)
\* how one request was answered: without error, with an error object, or by
\* a rejected promise
Answer(thrown) == IF storeUp THEN "data" ELSE IF thrown THEN "thrown" ELSE "error"

Running(op, pc) == seqLast.out = "pending" /\ seqLast.op = op /\ seqLast.pc = pc

FaultCall(op, pc, out, ret, userId, lookup, insert) ==
    [op |-> op, pc |-> pc, out |-> out, ret |-> ret, userId |-> userId,
     lookup |-> lookup, insert |-> insert, before |-> users]

FaultFrame == UNCHANGED <<calcVars, seqImpl, seqPrev, localStore, sessionVars, recVars>>

\* the store starts or stops answering with errors
StoreFlips ==
    /\ storeUp' = ~storeUp
    /\ UNCHANGED <<users, seqLast>>
    /\ FaultFrame

\* plausible slip: no try/catch around the requests
initSettlesRethrows(answer) == IF answer = "thrown" THEN "rejected" ELSE "resolved"

\* initializeStorage: how the call settles after a request answered so; what
\* is thrown is caught and logged, an error object is returned on or ignored
initSettles(answer) == "resolved"

\* initializeStorage is called
FaultInitializeStorage ==
    /\ seqLast.out # "pending"
    /\ seqLast' = FaultCall("initializeStorage", "lookup", "pending", Null, 0, "", "")
    /\ UNCHANGED <<storeUp, users>>
    /\ FaultFrame

\* the admin lookup of the call is answered
FaultInitLookup(thrown) ==
    /\ Running("initializeStorage", "lookup")
    /\ seqLast' =
          IF Answer(thrown) # "thrown" /\ initSeeds(initLookup(users))
          THEN [seqLast EXCEPT !.pc = "insert", !.lookup = Answer(thrown)]
          ELSE [seqLast EXCEPT !.pc = "done", !.lookup = Answer(thrown),
                               !.out = initSettles(Answer(thrown))]
    /\ UNCHANGED <<storeUp, users>>
    /\ FaultFrame

\* the admin insert of the call is answered
FaultInitInsert(thrown) ==
    /\ Running("initializeStorage", "insert")
    /\ Len(users) < MaxUsers
    /\ users' = initInsert(users)
    /\ seqLast' = [seqLast EXCEPT !.pc = "done", !.insert = Answer(thrown),
                                  !.out = initSettles(Answer(thrown))]
    /\ UNCHANGED storeUp
    /\ FaultFrame

\* registerUser, from call to return
FaultRegisterUser(name, username, password) ==
    LET res == registerUser(users, name, username, password)
    IN  /\ seqLast.out # "pending"
        /\ Len(users) < MaxUsers
        /\ name # "" /\ username # "" /\ password # ""
        /\ users' = res.users
        /\ seqLast' = FaultCall("registerUser", "done",
                                IF res.out = "ok" THEN "resolved" ELSE "rejected",
                                res.ret, 0, "", "")
        /\ UNCHANGED storeUp
        /\ FaultFrame

whereRole(us, role) == SelectSeq(us, LAMBDA u : u.role = role)

\* plausible slip: the role filter dropped
getAllDriversEveryone(us) ==
    LET res == selectAll(us)
    IN  IF res.error # Null THEN <<>>
        ELSE [k \in 1..Len(Val(res.data)) |-> toUser(Val(res.data)[k])]

\* getAllDrivers: the list returned when the request is answered
getAllDrivers(us) ==
    LET res == selectAll(whereRole(us, "DRIVER"))
    IN  IF res.error # Null THEN <<>>
        ELSE [k \in 1..Len(Val(res.data)) |-> toUser(Val(res.data)[k])]

\* getAllDrivers, from call to return
FaultGetAllDrivers(thrown) ==
    /\ seqLast.out # "pending"
    /\ seqLast' = IF Answer(thrown) = "thrown"
                  THEN FaultCall("getAllDrivers", "done", "rejected", Null, 0, "thrown", "")
                  ELSE FaultCall("getAllDrivers", "done", "resolved",
                                 Some(getAllDrivers(users)), 0, Answer(thrown), "")
    /\ UNCHANGED <<storeUp, users>>
    /\ FaultFrame

\* getUserRecords, from call to return
FaultGetUserRecords(userId, thrown) ==
    /\ seqLast.out # "pending"
    /\ \E data \in getUserRecords(records, userId) :
          seqLast' = IF Answer(thrown) = "thrown"
                     THEN FaultCall("getUserRecords", "done", "rejected", Null, userId, "thrown", "")
                     ELSE FaultCall("getUserRecords", "done", "resolved",
                                    Some(data), userId, Answer(thrown), "")
    /\ UNCHANGED <<storeUp, users>>
    /\ FaultFrame

\* an empty users table, a record of each of two drivers
FaultInit ==
    /\ CalcUnused
    /\ SeqUnused
    /\ storeUp = TRUE
    /\ users = <<>>
    /\ SessionsUnused
    /\ records = HistRecords0
    /\ created = Len(HistRecords0)
    /\ route = "/"
    /\ form = <<>>
    /\ creates = <<>>
    /\ save = SaveIdle("")
    /\ hist = HistEmpty
    /\ admin = AdminIdle

FaultNext ==
    \/ StoreFlips
    \/ FaultInitializeStorage
    \/ \E thrown \in BOOLEAN : FaultInitLookup(thrown)
    \/ \E thrown \in BOOLEAN : FaultInitInsert(thrown)
    \/ \E name \in Names, username \in Usernames, password \in RegPasswords :
           FaultRegisterUser(name, username, password)
    \/ \E thrown \in BOOLEAN : FaultGetAllDrivers(thrown)
    \/ \E userId \in 1..MaxUsers, thrown \in BOOLEAN : FaultGetUserRecords(userId, thrown)

SpecFault == FaultInit /\ [][FaultNext]_vars

\* C14: no initializeStorage call settles by a failure, whatever the store
\* returns or throws on the lookup or on the insert; when the lookup fails
\* with an error other than 'no rows' the call ends there, without an insert
\* and with the store as it was.
C14_InitSwallowsFailures ==
    /\ [](seqLast.op = "initializeStorage" => seqLast.out # "rejected")
    /\ [][\A thrown \in BOOLEAN :
             (FaultInitLookup(thrown) /\ ~storeUp) =>
                 /\ seqLast'.pc = "done"
                 /\ seqLast'.out = "resolved"
                 /\ users' = users]_vars
    /\ [](( /\ seqLast.op = "initializeStorage"
            /\ seqLast.lookup \in {"error", "thrown"}) =>
              /\ seqLast.insert = ""
              /\ users = seqLast.before)

\* a call has returned normally after its lookup was answered by an error,
\* leaving the table of one driver without admin
C14_Witness ==
    /\ seqLast.op = "initializeStorage"
    /\ seqLast.out = "resolved"
    /\ seqLast.lookup = "error"
    /\ AdminCount(users) = 0
    /\ Len(users) = 1

SameUser(u, d) ==
    /\ u.id = d.id /\ u.name = d.name /\ u.username = d.username
    /\ u.passwordHash = d.password_hash /\ u.role = d.role

\* C15: a read the store answers with an error makes getAllDrivers and
\* getUserRecords return an empty list, not fail; getAllDrivers on a working
\* store returns exactly the users whose role is DRIVER.
C15_ReadsDegrade ==
    /\ (seqLast.op \in {"getAllDrivers", "getUserRecords"} /\ seqLast.lookup = "error") =>
           seqLast.out = "resolved" /\ seqLast.ret = Some(<<>>)
    /\ (seqLast.op = "getAllDrivers" /\ seqLast.lookup = "data") =>
           /\ seqLast.out = "resolved"
           /\ LET list == Val(seqLast.ret)
                  us == seqLast.before
              IN  /\ \A i \in 1..Len(us) :
                         us[i].role = "DRIVER" =>
                             Cardinality({k \in 1..Len(list) : SameUser(list[k], us[i])}) = 1
                  /\ \A k \in 1..Len(list) :
                         /\ list[k].role = "DRIVER"
                         /\ \E i \in 1..Len(us) : SameUser(list[k], us[i])

\* with the admin and a driver in the table, getAllDrivers has returned the
\* empty list because the store answered with an error
C15_Witness ==
    /\ seqLast.op = "getAllDrivers"
    /\ seqLast.lookup = "error"
    /\ seqLast.ret = Some(<<>>)
    /\ AdminCount(users) = 1
    /\ \E i \in 1..Len(users) : users[i].role = "DRIVER"

(***************************************************************************)
(* CalculatorView saves on a store that may fail                           *)
(***************************************************************************)
SaveParcelTexts == {Text0, <<"2">>, <<"-", "1">>}
SaveCollectionTexts == {Text0, <<"3">>}

SaveNext ==
    \/ StoreFlips
    \/ OpenCalculator
    \/ \E m \in Modes : setMode(m)
    \/ \E t \in SaveParcelTexts : setParcels(t)
    \/ \E t \in SaveCollectionTexts : setCollections(t)
    \/ handleSave
    \/ \E i \in 1..MaxInFlight : CreateAtStore(i)
    \/ SaveSettles

SpecSave == FormInit0 /\ [][SaveNext]_vars

\* the row of the table that holds the record handed to createRecord
Persisted(draft, recs) ==
    \E i \in 1..Len(recs) :
        /\ recs[i].user_id = draft.userId /\ recs[i].date = draft.date
        /\ recs[i].mode = draft.mode /\ recs[i].type = draft.type
        /\ recs[i].quantity = draft.quantity /\ recs[i].value = draft.value
        /\ recs[i].route_names = draft.routeNames /\ recs[i].is_two_ids = draft.isTwoIDs

\* C16: a save one of whose create calls failed reports an error and stays on
\* the form; no step takes a record out of the store, so the record of a
\* create call that succeeded stays (no rollback); and a save that navigates
\* to the dashboard has every record it issued in the store.
C16_SaveFailureReported ==
    /\ [][(SaveSettles /\ save.failed) =>
              /\ save'.alert # ""
              /\ route' = "/new-record"
              /\ records' = records]_vars
    /\ [][\A i \in 1..Len(records) : \E j \in 1..Len(records') : records'[j] = records[i]]_vars
    /\ [][(SaveSettles /\ route' = "/") =>
              \A k \in 1..Len(save.issued) : Persisted(save.issued[k], records)]_vars

\* a save of two parcels and three collections has reported the error of its
\* collection create; the parcels are in the store
C16_Witness ==
    /\ route = "/new-record"
    /\ save.alert # ""
    /\ ~save.loading
    /\ creates = <<>>
    /\ form.mode = "INDIVIDUAL"
    /\ form.parcels = <<"2">> /\ form.collections = <<"3">>
    /\ Len(records) = 1
    /\ records[1].type = "PARCEL" /\ records[1].quantity = 2

\* C17: a combined INDIVIDUAL save has both its create calls in flight
\* together, and completes (success or error reported, loading flag cleared)
\* only when every create call it issued has settled, also when one failed.
C17_SaveWaitsForBoth ==
    /\ [][(handleSave /\ save'.loading) =>
              /\ Len(creates') = Len(creates) + Len(save'.issued)
              /\ save'.left = Len(save'.issued)]_vars
    /\ [][SaveSettles => \A i \in 1..Len(creates) : ~creates[i].awaited]_vars

\* the text writes a count above zero
EnteredPositive(t) == AllDigits(t) /\ ReadNat(t) > 0

TypesIssued(drafts, type) == {k \in 1..Len(drafts) : drafts[k].type = type}

\* C18: one INDIVIDUAL save on a working store creates a PARCEL record, of
\* quantity the parcels entered, exactly when that count is positive, and a
\* COLLECTION record, of quantity the collections entered, exactly when that
\* count is positive: at most two records, never two of a type, all with the
\* same userId, date and route name; the store is given exactly these.
C18_IndividualRecords ==
    /\ [][(handleSave /\ form.mode = "INDIVIDUAL" /\ save'.loading) =>
              LET ds == save'.issued
              IN  /\ Cardinality(TypesIssued(ds, "PARCEL")) =
                         IF EnteredPositive(form.parcels) THEN 1 ELSE 0
                  /\ Cardinality(TypesIssued(ds, "COLLECTION")) =
                         IF EnteredPositive(form.collections) THEN 1 ELSE 0
                  /\ \A k \in TypesIssued(ds, "PARCEL") : ds[k].quantity = ReadNat(form.parcels)
                  /\ \A k \in TypesIssued(ds, "COLLECTION") :
                         ds[k].quantity = ReadNat(form.collections)
                  /\ Len(ds) <= 2
                  /\ \A k \in 1..Len(ds) :
                         /\ ds[k].type \in {"PARCEL", "COLLECTION"}
                         /\ ds[k].userId = DriverId
                         /\ ds[k].date = form.date
                         /\ ds[k].routeNames = Some(form.routeId1)]_vars
    /\ [][\A i \in 1..MaxInFlight :
              (storeUp /\ CreateAtStore(i)) =>
                  /\ Len(records') = Len(records) + 1
                  /\ SubSeq(records', 1, Len(records)) = records
                  /\ Persisted(creates[i].record, <<records'[Len(records')]>>)]_vars
    /\ [][(SaveSettles /\ route' = "/") =>
              \A k \in 1..Len(save.issued) : Persisted(save.issued[k], records)]_vars

\* a save of two parcels and three collections on route 101 is done: both
\* records are in the store, with one date and one route name
C18_Witness ==
    /\ route = "/"
    /\ Len(records) = 2
    /\ \E i, j \in 1..2 :
          /\ records[i].type = "PARCEL" /\ records[i].quantity = 2
          /\ records[j].type = "COLLECTION" /\ records[j].quantity = 3
          /\ records[i].date = records[j].date
          /\ records[i].route_names = Some("101")
          /\ records[j].route_names = Some("101")

\* C20: an INDIVIDUAL save that reports success (navigates to the dashboard,
\* no message) has created at least one work record, whatever the parcels and
\* collections fields hold: empty, zero or negative entries included.
C20_SuccessMeansSaved ==
    [][(SaveSettles /\ route' = "/" /\ form.mode = "INDIVIDUAL") =>
           /\ Len(save.issued) >= 1
           /\ \A k \in 1..Len(save.issued) : Persisted(save.issued[k], records)]_vars

(***************************************************************************)
(* AdminView (src/App.tsx): the drivers and the history of one of them     *)
(***************************************************************************)
AdminShown == currentUser[Driver] # Null /\ Val(currentUser[Driver]).role = "ADMIN"

AdminFrame == UNCHANGED <<records, created, route, form, creates, save>> /\ StoreFrame

\* LoginView.handleSubmit, admin tab: AdminView mounts
AdminLogin(username, password) ==
    LET user == authenticate(users, username, password, "ADMIN")
    IN  /\ currentUser[Driver] = Null
        /\ user # Null
        /\ currentUser' = [currentUser EXCEPT ![Driver] = user]
        /\ admin' = AdminIdle
        /\ UNCHANGED hist
        /\ AdminFrame

\* AdminView.load: setDrivers(await getAllDrivers())
AdminLoadDrivers ==
    /\ AdminShown
    /\ admin.loading
    /\ admin' = [admin EXCEPT !.drivers = getAllDrivers(users), !.loading = FALSE]
    /\ UNCHANGED <<hist, currentUser>>
    /\ AdminFrame

\* a driver of the list is clicked: HistoryView mounts with user = the driver
setSelectedDriver(d) ==
    /\ AdminShown
    /\ ~admin.loading
    /\ admin.selectedDriver = Null
    /\ d \in 1..Len(admin.drivers)
    /\ admin' = [admin EXCEPT !.selectedDriver = Some(admin.drivers[d])]
    /\ hist' = HistMounted(hist, admin.drivers[d].id)
    /\ UNCHANGED currentUser
    /\ AdminFrame

\* the back button of the driver's page: setSelectedDriver(null)
clearSelectedDriver ==
    /\ AdminShown
    /\ admin.selectedDriver # Null
    /\ admin' = [admin EXCEPT !.selectedDriver = Null]
    /\ hist' = HistUnmounted(hist)
    /\ UNCHANGED currentUser
    /\ AdminFrame

AdminNext ==
    \/ \E username \in Usernames, password \in Passwords : AdminLogin(username, password)
    \/ AdminLoadDrivers
    \/ \E d \in 1..MaxUsers : setSelectedDriver(d)
    \/ clearSelectedDriver
    \/ \E username \in HistUsernames, password \in Passwords :
           LoginToRoute(username, password)
    \/ LogoutFromRoute
    \/ OpenHistory
    \/ CloseHistory
    \/ \E f \in HistForms : SaveFromCalculator(f)
    \/ \E id \in 1..MaxSaved : handleDelete(id)
    \/ \E k \in 1..MaxInFlight : DeleteAtStore(k)
    \/ \E k \in 1..MaxInFlight : RefreshAtStore(k)
    \/ \E k \in 1..MaxInFlight : RefreshArrives(k)

SpecAdmin == HistInit /\ [][AdminNext]_vars

OwnerOf(recs, id) == {recs[i].user_id : i \in {j \in 1..Len(recs) : recs[j].id = id}}

\* C19: every createRecord and deleteRecord call the application issues is
\* about a record whose userId is the id of the user logged in; a session
\* logged in as ADMIN creates, changes and deletes no record of a driver.
C19_OwnRecordsOnly ==
    /\ [][\A id \in 1..MaxSaved :
              handleDelete(id) => OwnerOf(records, id) \subseteq {Val(currentUser[Driver]).id}]_vars
    /\ [][\A f \in HistForms :
              SaveFromCalculator(f) =>
                  records'[Len(records')].user_id = Val(currentUser[Driver]).id]_vars
    /\ [][AdminShown /\ AdminShown' => Len(hist'.deletes) <= Len(hist.deletes)]_vars

\* every deleteRecord and getUserRecords call of HistoryView has settled
HistSettled == HistoryShown /\ hist.deletes = <<>> /\ hist.refreshes = <<>>

\* C21: in HistoryView, once every delete and refresh in flight has settled
\* on a working store, the list shown is the list of the store's records of
\* that user, whatever the order in which deletions were performed and
\* refresh answers arrived.
C21_SettledShowsStore ==
    HistSettled => ExactlyOwned(hist.records, records, HistoryUser)

(***************************************************************************)
(* App (src/App.tsx): what a session renders                               *)
(***************************************************************************)
\* App's return: the loading text, or the element of the matching route
View(s) ==
    IF appLoading[s] THEN "loading"
    ELSE IF currentUser[s] = Null THEN "LoginView"
    ELSE IF Val(currentUser[s]).role = "ADMIN" THEN "AdminView"
    ELSE "DriverViews"

\* the step is a handleSubmit of session s that ended in onLogin(user)
OnLogin(s) ==
    \/ \E tab \in Roles, username \in Usernames, password \in Passwords :
           /\ SubmitLogin(s, tab, username, password)
           /\ currentUser'[s] = authenticate(users, username, password, TabRole(tab))
    \/ /\ RegisterInsert(s)
       /\ storeUp
       /\ currentUser'[s] = Some(toUser(users'[Len(users')]))

\* the row of the user was written by initializeStorage, not by registerUser
Seeded(user) ==
    \E i \in 1..Len(users) :
        /\ toUser(users[i]) = user
        /\ users[i] = UserRow(i, "System Admin", "admin", "EVRI01", "ADMIN")

\* C22: a session shows the admin view only while its currentUser has role
\* ADMIN; currentUser becomes non-null only by a successful authenticate or
\* registerUser and stays as it is until the next logout; registerUser
\* creates a DRIVER, so a user who has just registered is shown the driver's
\* views and every user shown the admin view is the seeded admin; a session
\* with no user shows the login view only (or nothing, while the app loads).
C22_SessionLifecycle ==
    /\ [](\A s \in Sessions :
              View(s) = "AdminView" =>
                  /\ currentUser[s] # Null
                  /\ Val(currentUser[s]).role = "ADMIN"
                  /\ Seeded(Val(currentUser[s])))
    /\ [](\A s \in Sessions :
              currentUser[s] = Null => View(s) \in {"loading", "LoginView"})
    /\ [][\A s \in Sessions :
              (currentUser[s] = Null /\ currentUser'[s] # Null) => OnLogin(s)]_vars
    /\ [][\A s \in Sessions :
              (currentUser[s] # Null /\ currentUser'[s] # currentUser[s]) =>
                  handleLogout(s)]_vars
    /\ [][\A s \in Sessions :
              (RegisterInsert(s) /\ storeUp) =>
                  /\ users'[Len(users')].role = "DRIVER"
                  /\ View(s)' = "DriverViews"]_vars

\* one session shows the admin view to the seeded admin while the other shows
\* the driver's views to a user who registered under the username admin
C22_Witness ==
    \E s, t \in Sessions :
        /\ View(s) = "AdminView"
        /\ View(t) = "DriverViews"
        /\ Val(currentUser[t]).username = "admin"

(***************************************************************************)
(* AdminView.handleGlobalExport (src/App.tsx)                              *)
(***************************************************************************)
\* the records read so far are written: generateCSV(allRecords, ...), finally
ExportWritten(a, allRecords) ==
    [a EXCEPT !.exportLoading = FALSE, !.exportNext = 0, !.allRecords = allRecords,
              !.file = Some(generateCSV(allRecords))]

\* for (const d of drivers): another driver follows
ExportGoesOn(a) == a.exportNext < Len(a.drivers)

\* the export button: up to the first getUserRecords call
handleGlobalExport ==
    /\ AdminShown
    /\ ~admin.loading
    /\ ~admin.exportLoading
    /\ admin' = IF admin.drivers = <<>>
                THEN ExportWritten([admin EXCEPT !.alert = ""], <<>>)
                ELSE [admin EXCEPT !.exportLoading = TRUE, !.exportNext = 1,
                                   !.allRecords = <<>>, !.file = Null, !.alert = ""]
    /\ UNCHANGED <<hist, currentUser>>
    /\ AdminFrame

\* one getUserRecords(d.id) call is answered, or its promise is rejected
ExportRead(thrown) ==
    /\ admin.exportLoading
    /\ thrown => ~storeUp
    /\ LET d == admin.drivers[admin.exportNext]
       IN  IF thrown
           THEN admin' = [admin EXCEPT !.exportLoading = FALSE, !.exportNext = 0,
                                       !.alert = "Erro ao exportar"]
           ELSE \E recs \in IF seqImpl = "hosted" THEN getUserRecords(records, d.id)
                            ELSE localGetUserRecords(records, d.id) :
                    admin' = IF ExportGoesOn(admin)
                             THEN [admin EXCEPT !.exportNext = @ + 1,
                                                !.allRecords = @ \o recs]
                             ELSE ExportWritten(admin, admin.allRecords \o recs)
    /\ UNCHANGED <<hist, currentUser>>
    /\ AdminFrame

\* drivers save records and the admin exports them, on a store that may
\* fail; logouts are followed outside an export only
ExportNext ==
    \/ StoreFlips
    \/ \E username \in Usernames, password \in Passwords : AdminLogin(username, password)
    \/ AdminLoadDrivers
    \/ handleGlobalExport
    \/ \E thrown \in BOOLEAN : ExportRead(thrown)
    \/ \E username \in HistUsernames, password \in Passwords :
           LoginToRoute(username, password)
    \/ \E f \in HistForms : SaveFromCalculator(f)
    \/ (~admin.exportLoading /\ LogoutFromRoute)

SpecExport == HistInit /\ [][ExportNext]_vars

\* the records of the drivers listed, each on a line of the file
ExportsAll(file) ==
    LET lines == Split(file, NewLine)
        listed == {i \in 1..Len(records) :
                      \E d \in 1..Len(admin.drivers) : admin.drivers[d].id = records[i].user_id}
    IN  /\ Len(lines) = Cardinality(listed) + 1
        /\ \A i \in listed :
               \E k \in 2..Len(lines) : CsvLineOf(lines[k], toWorkRecord(records[i]))

\* C23: an export that produced a file wrote one line for every work record
\* of every driver of the list loaded; a read that failed ends the export
\* with 'Erro ao exportar' and with no file.
C23_ExportAllOrError ==
    /\ admin.file # Null => ExportsAll(Val(admin.file))
    /\ admin.file # Null => admin.alert = ""

(***************************************************************************)
(* HistoryView.groupedRecords (src/App.tsx): the label of a month          *)
(***************************************************************************)
\* minutes the browser's local time is ahead of UTC: Sao Paulo, UTC, Berlin
TzOffsets == {-180, 0, 60}

LabelDates == {20240101, 20240315, 20240401}

\* the long month names of pt-BR with their first letter in upper case
\* (Marco for the name written with a cedilla)
MonthNames ==
    <<"Janeiro", "Fevereiro", "Marco", "Abril", "Maio", "Junho", "Julho", "Agosto",
      "Setembro", "Outubro", "Novembro", "Dezembro">>

\* new Date(r.date) is 00:00 UTC of the date YYYY-MM-DD; the year and month,
\* YYYYMM, of that instant on the local clock: those of the day before when
\* the local clock is behind UTC
localYearMonth(date, offset) ==
    LET ym == date \div 100
    IN  IF offset < 0 /\ date % 100 = 1
        THEN IF ym % 100 = 1 THEN (ym \div 100 - 1) * 100 + 12 ELSE ym - 1
        ELSE ym

\* toLocaleString('pt-BR', { month: 'long', year: 'numeric' }), capitalised:
\* the month name and the year of "<Month> de <year>"
label(date, offset) ==
    LET ym == localYearMonth(date, offset)
    IN  <<MonthNames[ym % 100], ym \div 100>>

\* the groups with their labels: a group gets the label of the record that
\* created it, the first of its records
labelledGroups(recs, offset) ==
    LET groups == groupedRecords(recs)
    IN  [g \in 1..Len(groups) |->
            [monthKey |-> groups[g].monthKey,
             label |-> label(groups[g].records[1].date, offset),
             total |-> groups[g].total,
             records |-> groups[g].records]]

LabelLists ==
    UNION {{[k \in 1..n |-> ShownRecord(k, d[k], 200)] : d \in [1..n -> LabelDates]} :
               n \in 0..MaxShown}

\* the memo is computed in a browser of the given time zone
CallLabelledGroups ==
    /\ calcOut = Null
    /\ calcIn.fn = "labelledGroups"
    /\ calcOut' = Some(labelledGroups(calcIn.records, calcIn.offset))
    /\ UNCHANGED <<storeUp, users>> /\ CalcFrame

LabelInit ==
    /\ calcIn \in [fn : {"labelledGroups"}, records : LabelLists, offset : TzOffsets]
    /\ calcOut = Null
    /\ storeUp = TRUE
    /\ users = <<>>
    /\ SeqUnused
    /\ SessionsUnused
    /\ RecUnused

LabelNext == CallLabelledGroups

SpecLabel == LabelInit /\ [][LabelNext]_vars

\* C24: the label of every group of the monthly grouping names the year and
\* the month of the group's monthKey, whatever the dates of the records, the
\* first day of a month included, and whatever the time zone of the browser.
C24_LabelNamesMonthKey ==
    (calcIn.fn = "labelledGroups" /\ calcOut # Null) =>
        \A g \in 1..Len(Val(calcOut)) :
            LET group == Val(calcOut)[g]
            IN  group.label = <<MonthNames[group.monthKey % 100], group.monthKey \div 100>>

(***************************************************************************)
(* The two implementations of the service, called side by side             *)
(* (src/services/storage.ts, src/types.ts)                                 *)
(***************************************************************************)
\* getAllDrivers of the local variant
localGetAllDrivers(us) == SelectSeq(us, LAMBDA u : u.role = "DRIVER")

\* createRecord of the local variant: the record pushed with a new id; the
\* n-th id of one store stands for the n-th id of the other
localCreateRecord(recs, n, record) == Append(recs, RecordRow(n + 1, record))

BothUserIds == {2, 3}

\* the records handed to createRecord
BothDrafts == {saveDrafts(f, userId)[1] : f \in HistForms, userId \in BothUserIds}

BothFrame == UNCHANGED <<calcVars, storeUp, seqImpl, seqPrev, sessionVars,
                         route, form, creates, save, hist, admin>>

\* the call made on the hosted store and its outcome; the same call made on
\* the local store and its outcome
BothCalled(op, arg, out, ret, localOut, localRet, localUsers, localRecords) ==
    /\ seqLast' = Call(op, arg, out, ret)
    /\ localStore' = [users |-> localUsers, records |-> localRecords,
                      created |-> localStore.created +
                                  (Len(localRecords) - Len(localStore.records)),
                      out |-> localOut, ret |-> localRet]
    /\ BothFrame

BothInitializeStorage ==
    /\ users' = initializeStorage(users)
    /\ UNCHANGED <<records, created>>
    /\ BothCalled("initializeStorage", "admin", "ok", Null, "ok", Null,
                  localInitializeStorage(localStore.users), localStore.records)

BothRegisterUser(name, username, password) ==
    LET r == registerUser(users, name, username, password)
        l == localRegisterUser(localStore.users, name, username, password)
    IN  /\ Len(r.users) <= MaxUsers
        /\ Len(l.users) <= MaxUsers
        /\ users' = r.users
        /\ UNCHANGED <<records, created>>
        /\ BothCalled("registerUser", username, r.out, r.ret, l.out, l.ret,
                      l.users, localStore.records)

BothAuthenticate(username, password, role) ==
    LET r == authenticate(users, username, password, role)
        l == localAuthenticate(localStore.users, username, password, role)
    IN  /\ UNCHANGED <<users, records, created>>
        /\ BothCalled("authenticate", username, IF r = Null THEN "null" ELSE "user", r,
                      IF l = Null THEN "null" ELSE "user", l,
                      localStore.users, localStore.records)

BothGetAllDrivers ==
    /\ UNCHANGED <<users, records, created>>
    /\ BothCalled("getAllDrivers", "", "ok", getAllDrivers(users),
                  "ok", localGetAllDrivers(localStore.users),
                  localStore.users, localStore.records)

BothCreateRecord(record) ==
    /\ created < MaxSaved
    /\ records' = createRecord(records, created, record)
    /\ created' = created + 1
    /\ UNCHANGED users
    /\ BothCalled("createRecord", "", "ok", Null, "ok", Null, localStore.users,
                  localCreateRecord(localStore.records, localStore.created, record))

BothGetUserRecords(userId) ==
    /\ UNCHANGED <<users, records, created>>
    /\ \E data \in getUserRecords(records, userId),
          localData \in localGetUserRecords(localStore.records, userId) :
           BothCalled("getUserRecords", "", "ok", data, "ok", localData,
                      localStore.users, localStore.records)

BothDeleteRecord(recordId) ==
    /\ records' = deleteRecord(records, recordId)
    /\ UNCHANGED <<users, created>>
    /\ LET after == localDeleteRecord(localStore.records, recordId)
       IN  /\ seqLast' = Call("deleteRecord", "", "ok", Null)
           /\ localStore' = [localStore EXCEPT !.records = after,
                                               !.out = "ok", !.ret = Null]
           /\ BothFrame

BothInit == SeqInit /\ seqImpl = "hosted"

BothNext ==
    \/ BothInitializeStorage
    \/ \E name \in Names \ {""}, username \in Usernames \ {""}, password \in RegPasswords \ {""} :
           BothRegisterUser(name, username, password)
    \/ \E username \in Usernames, password \in Passwords, role \in Roles :
           BothAuthenticate(username, password, role)
    \/ BothGetAllDrivers
    \/ \E record \in BothDrafts : BothCreateRecord(record)
    \/ \E userId \in BothUserIds : BothGetUserRecords(userId)
    \/ \E recordId \in 1..MaxSaved : BothDeleteRecord(recordId)

SpecBoth == BothInit /\ [][BothNext]_vars

Elements(seq) == {seq[i] : i \in 1..Len(seq)}

SameElements(a, b) == Len(a) = Len(b) /\ Elements(a) = Elements(b)

NewestFirst(data) == \A a, b \in 1..Len(data) : a < b => data[a].date >= data[b].date

\* C25: after any sequence of initializeStorage, registerUser, authenticate,
\* getAllDrivers, createRecord, getUserRecords and deleteRecord calls made one
\* after another on both implementations, on a store that never fails, the
\* last call had the same outcome on both (the same success or error, the
\* same user or users, the same records newest first, records of one date
\* in any order) and the two stores hold the same users and the same records.
C25_SameOutcomes ==
    /\ seqLast.out = localStore.out
    /\ seqLast.op \in {"initializeStorage", "registerUser", "authenticate",
                       "createRecord", "deleteRecord"} => seqLast.ret = localStore.ret
    /\ seqLast.op = "getAllDrivers" => SameElements(seqLast.ret, localStore.ret)
    /\ seqLast.op = "getUserRecords" =>
           /\ SameElements(seqLast.ret, localStore.ret)
           /\ NewestFirst(seqLast.ret) /\ NewestFirst(localStore.ret)
    /\ Len(users) = Len(localStore.users)
    /\ \A i \in 1..Len(users) : toUser(users[i]) = localStore.users[i]
    /\ SameElements(records, localStore.records)
    /\ created = localStore.created

\* with two users in each store and a record deleted, getUserRecords has
\* answered the same two records on both, those of one date in another order
\* on the hosted store than on the local one
C25_Witness ==
    /\ seqLast.op = "getUserRecords"
    /\ Len(seqLast.ret) = 2
    /\ seqLast.ret # localStore.ret
    /\ Len(records) < created
    /\ Len(users) = 2

====
